---- MODULE Spec2Model ----
(***************************************************************************)
(* State-machine model of the IPC debugger's simulation engine             *)
(* (core/engine.py, core/ipc.py, core/processes.py, core/events.py), its   *)
(* two bundled scenarios (scenarios/*.py), the scenario dict conversion    *)
(* (core/scenario_io.py) and the analysis layer (analysis/analysis.py).    *)
(*                                                                         *)
(* Python dicts whose iteration order is observable (processes, ipcs) are  *)
(* sequences of records in insertion order; None is the string "None".     *)
(***************************************************************************)
EXTENDS Integers, Sequences, FiniteSets, TLC

VARIABLES processes, ipcs, time, events, deadlocked, sched_index,
          state_history, block_counts_by_ipc, block_events, ret, resets

vars == <<processes, ipcs, time, events, deadlocked, sched_index,
          state_history, block_counts_by_ipc, block_events, ret, resets>>

\* ---------------------------------------------------------------- bounds
\* reset() is called at most MaxResets times in a behaviour
MaxResets == 1
\* run(max_steps) is called with max_steps in 0..MaxSteps, or the default
MaxSteps == 1
\* capacity of the Pipe in the generated scenarios ranges over 0..MaxCap
MaxCap == 2

\* block counts of the feature vectors handed to the risk score range over
\* 0..MaxFeature (the blocking terms of the score saturate at 10 and at 3)
MaxFeature == 11

\* run's default max_steps
DefaultMaxSteps == 1000

None == "None"

\* ------------------------------------------------------------ entity model
Operation(op_type, target, data) ==
    [op_type |-> op_type, target |-> target, data |-> data]

Process(pid, name, operations) ==
    [pid |-> pid, name |-> name, operations |-> operations,
     pc |-> 0, state |-> "READY", wait_reason |-> None]

has_finished(p) == p.pc >= Len(p.operations)

Pipe(id, capacity) ==
    [id |-> id, ipc_type |-> "PIPE", capacity |-> capacity, buffer |-> <<>>]

MessageQueue(id, capacity) ==
    [id |-> id, ipc_type |-> "MSG_QUEUE", capacity |-> capacity, queue |-> <<>>]

SharedMemory(id, initial_data) ==
    [id |-> id, ipc_type |-> "SHARED_MEMORY", data |-> initial_data,
     lock_holder |-> None, wait_queue |-> <<>>]

isPipe(ipc) == ipc.ipc_type = "PIPE"
isMessageQueue(ipc) == ipc.ipc_type = "MSG_QUEUE"
isSharedMemory(ipc) == ipc.ipc_type = "SHARED_MEMORY"

\* can_write that still admits a write into a full buffer
can_write_UpToCapacity(ipc) == Len(ipc.buffer) <= ipc.capacity

can_write(ipc) == Len(ipc.buffer) < ipc.capacity
can_read(ipc) == Len(ipc.buffer) > 0
can_send(ipc) == Len(ipc.queue) < ipc.capacity
can_recv(ipc) == Len(ipc.queue) > 0
is_free(ipc) == ipc.lock_holder = None

\* unlock handing the lock to the head of the queue without removing it
unlock_KeepsWaiter(ipc) ==
    IF Len(ipc.wait_queue) > 0
    THEN [ipc EXCEPT !.lock_holder = Head(ipc.wait_queue)]
    ELSE [ipc EXCEPT !.lock_holder = None]

\* unlock handing the lock to the newest waiter (pop instead of popleft)
unlock_Lifo(ipc) ==
    IF Len(ipc.wait_queue) > 0
    THEN [ipc EXCEPT !.lock_holder = ipc.wait_queue[Len(ipc.wait_queue)],
                     !.wait_queue = SubSeq(ipc.wait_queue, 1,
                                           Len(ipc.wait_queue) - 1)]
    ELSE [ipc EXCEPT !.lock_holder = None]

\* SharedMemory.unlock, called only by the holder (the engine checks first)
unlock(ipc) ==
    IF Len(ipc.wait_queue) > 0
    THEN [ipc EXCEPT !.lock_holder = Head(ipc.wait_queue),
                     !.wait_queue = Tail(ipc.wait_queue)]
    ELSE [ipc EXCEPT !.lock_holder = None]

Event(t, pid, action, result, details) ==
    [time |-> t, pid |-> pid, action |-> action, result |-> result,
     details |-> details]

\* ------------------------------------------------------------ engine state
\* The engine object as one record; the module's variables hold its fields.
Cur ==
    [processes |-> processes, ipcs |-> ipcs, time |-> time, events |-> events,
     deadlocked |-> deadlocked, sched_index |-> sched_index,
     state_history |-> state_history,
     block_counts_by_ipc |-> block_counts_by_ipc,
     block_events |-> block_events]

Pids(e) == {e.processes[i].pid : i \in 1..Len(e.processes)}
IpcIds(e) == {e.ipcs[j].id : j \in 1..Len(e.ipcs)}
ProcIdx(e, pid) == CHOOSE i \in 1..Len(e.processes) : e.processes[i].pid = pid
IpcIdx(e, id) == CHOOSE j \in 1..Len(e.ipcs) : e.ipcs[j].id = id

\* SimulationEngine.__init__
NewEngine(procs, ipcList) ==
    [processes |-> procs, ipcs |-> ipcList, time |-> 0, events |-> <<>>,
     deadlocked |-> FALSE, sched_index |-> 0,
     state_history |-> [pid \in {procs[i].pid : i \in 1..Len(procs)} |-> <<>>],
     block_counts_by_ipc |-> <<>>,
     block_events |-> <<>>]

\* ResetOf that leaves the round-robin cursor where it was
ResetOf_KeepsCursor(e) ==
    [e EXCEPT !.time = 0, !.events = <<>>, !.deadlocked = FALSE,
              !.processes = [i \in 1..Len(e.processes) |->
                               [e.processes[i] EXCEPT !.pc = 0,
                                                      !.state = "READY",
                                                      !.wait_reason = None]],
              !.state_history = [pid \in Pids(e) |-> <<>>],
              !.block_counts_by_ipc = <<>>,
              !.block_events = <<>>]

\* SimulationEngine.reset: the IPC objects are left as they are
ResetOf(e) ==
    [e EXCEPT !.time = 0, !.events = <<>>, !.deadlocked = FALSE,
              !.sched_index = 0,
              !.processes = [i \in 1..Len(e.processes) |->
                               [e.processes[i] EXCEPT !.pc = 0,
                                                      !.state = "READY",
                                                      !.wait_reason = None]],
              !.state_history = [pid \in Pids(e) |-> <<>>],
              !.block_counts_by_ipc = <<>>,
              !.block_events = <<>>]

snapshot_states(e) ==
    [e EXCEPT !.state_history =
        [pid \in DOMAIN e.state_history |->
            IF pid \in Pids(e)
            THEN Append(e.state_history[pid], e.processes[ProcIdx(e, pid)].state)
            ELSE e.state_history[pid]]]

all_finished(e) == \A i \in 1..Len(e.processes) : has_finished(e.processes[i])

_log_event(e, pid, action, result, details) ==
    [e EXCEPT !.events = Append(@, Event(e.time, pid, action, result, details))]

\* block_counts_by_ipc is a defaultdict(int): a key appears on its first count
BlockCount(e, id) ==
    IF id \in DOMAIN e.block_counts_by_ipc THEN e.block_counts_by_ipc[id] ELSE 0

IncBlockCount(counts, id) ==
    [k \in (DOMAIN counts) \cup {id} |->
        IF k = id
        THEN (IF id \in DOMAIN counts THEN counts[id] ELSE 0) + 1
        ELSE counts[k]]

\* ------------------------------------------------------ operation dispatch
\* Result of _execute_operation: the engine afterwards and the value returned.
Outcome(e, progressed) == [eng |-> e, progressed |-> progressed]

\* Advance moving pc two operations on
Advance_SkipsOne(e, i, state) ==
    Outcome([e EXCEPT !.processes[i].state = state,
                      !.processes[i].pc = @ + 2], TRUE)

\* Advance without the assignment to proc.state
Advance_KeepsState(e, i, state) ==
    Outcome([e EXCEPT !.processes[i].pc = @ + 1], TRUE)

\* proc.state = READY; proc.pc += 1; return True
Advance(e, i, state) ==
    Outcome([e EXCEPT !.processes[i].state = state,
                      !.processes[i].pc = @ + 1], TRUE)

\* Block without the entry in block_events
Block_NoOccurrence(e, i, id, reason) ==
    Outcome([e EXCEPT !.processes[i].state = "BLOCKED",
                      !.processes[i].wait_reason = reason,
                      !.block_counts_by_ipc = IncBlockCount(@, id)],
            FALSE)

\* Block without the per-IPC block counter
Block_NoCount(e, i, id, reason) ==
    Outcome([e EXCEPT !.processes[i].state = "BLOCKED",
                      !.processes[i].wait_reason = reason,
                      !.block_events =
                          Append(@, <<e.time, e.processes[i].pid, id>>)],
            FALSE)

\* the BLOCKED branch shared by pipes, queues and locks:
\* proc.state = BLOCKED; wait_reason; block_counts_by_ipc[id] += 1;
\* block_events.append((time, pid, id)); return False
Block(e, i, id, reason) ==
    Outcome([e EXCEPT !.processes[i].state = "BLOCKED",
                      !.processes[i].wait_reason = reason,
                      !.block_counts_by_ipc = IncBlockCount(@, id),
                      !.block_events =
                          Append(@, <<e.time, e.processes[i].pid, id>>)],
            FALSE)

TargetedOps ==
    {"WRITE_PIPE", "READ_PIPE", "SEND_MSG", "RECV_MSG",
     "LOCK", "UNLOCK", "READ_SHM", "WRITE_SHM"}

ExecWritePipe(e, i, op, j) ==
    LET pid == e.processes[i].pid
        ipc == e.ipcs[j]
    IN IF can_write(ipc)
       THEN Advance(_log_event([e EXCEPT !.ipcs[j].buffer = Append(@, op.data)],
                               pid, "WRITE_PIPE", "OK",
                               [target |-> ipc.id, data |-> op.data]),
                    i, "READY")
       ELSE Block(_log_event(e, pid, "WRITE_PIPE", "BLOCKED", [target |-> ipc.id]),
                  i, ipc.id, "Pipe " \o ipc.id \o " full")

\* ExecReadPipe taking the newest item (pop instead of popleft)
ExecReadPipe_Lifo(e, i, op, j) ==
    LET pid == e.processes[i].pid
        ipc == e.ipcs[j]
    IN IF can_read(ipc)
       THEN Advance(_log_event([e EXCEPT !.ipcs[j].buffer =
                                             SubSeq(@, 1, Len(@) - 1)],
                               pid, "READ_PIPE", "OK",
                               [target |-> ipc.id,
                                data |-> ipc.buffer[Len(ipc.buffer)]]),
                    i, "READY")
       ELSE Block(_log_event(e, pid, "READ_PIPE", "BLOCKED", [target |-> ipc.id]),
                  i, ipc.id, "Pipe " \o ipc.id \o " empty")

ExecReadPipe(e, i, op, j) ==
    LET pid == e.processes[i].pid
        ipc == e.ipcs[j]
    IN IF can_read(ipc)
       THEN Advance(_log_event([e EXCEPT !.ipcs[j].buffer = Tail(@)],
                               pid, "READ_PIPE", "OK",
                               [target |-> ipc.id, data |-> Head(ipc.buffer)]),
                    i, "READY")
       ELSE Block(_log_event(e, pid, "READ_PIPE", "BLOCKED", [target |-> ipc.id]),
                  i, ipc.id, "Pipe " \o ipc.id \o " empty")

ExecSendMsg(e, i, op, j) ==
    LET pid == e.processes[i].pid
        ipc == e.ipcs[j]
    IN IF can_send(ipc)
       THEN Advance(_log_event([e EXCEPT !.ipcs[j].queue = Append(@, op.data)],
                               pid, "SEND_MSG", "OK",
                               [target |-> ipc.id, data |-> op.data]),
                    i, "READY")
       ELSE Block(_log_event(e, pid, "SEND_MSG", "BLOCKED", [target |-> ipc.id]),
                  i, ipc.id, "Queue " \o ipc.id \o " full")

ExecRecvMsg(e, i, op, j) ==
    LET pid == e.processes[i].pid
        ipc == e.ipcs[j]
    IN IF can_recv(ipc)
       THEN Advance(_log_event([e EXCEPT !.ipcs[j].queue = Tail(@)],
                               pid, "RECV_MSG", "OK",
                               [target |-> ipc.id, data |-> Head(ipc.queue)]),
                    i, "READY")
       ELSE Block(_log_event(e, pid, "RECV_MSG", "BLOCKED", [target |-> ipc.id]),
                  i, ipc.id, "Queue " \o ipc.id \o " empty")

\* ExecLock that queues every caller of a taken lock, the holder included
ExecLock_QueuesHolder(e, i, op, j) ==
    LET pid == e.processes[i].pid
        ipc == e.ipcs[j]
    IN IF is_free(ipc)
       THEN Advance(_log_event([e EXCEPT !.ipcs[j].lock_holder = pid],
                               pid, "LOCK", "OK", [target |-> ipc.id]),
                    i, "READY")
       ELSE Block(_log_event([e EXCEPT !.ipcs[j].wait_queue = Append(@, pid)],
                             pid, "LOCK", "BLOCKED",
                             [target |-> ipc.id, holder |-> ipc.lock_holder]),
                  i, ipc.id, "Waiting lock on " \o ipc.id)

ExecLock(e, i, op, j) ==
    LET pid == e.processes[i].pid
        ipc == e.ipcs[j]
    IN IF is_free(ipc)
       THEN Advance(_log_event([e EXCEPT !.ipcs[j].lock_holder = pid],
                               pid, "LOCK", "OK", [target |-> ipc.id]),
                    i, "READY")
       ELSE IF pid # ipc.lock_holder
       THEN Block(_log_event([e EXCEPT !.ipcs[j].wait_queue = Append(@, pid)],
                             pid, "LOCK", "BLOCKED",
                             [target |-> ipc.id, holder |-> ipc.lock_holder]),
                  i, ipc.id, "Waiting lock on " \o ipc.id)
       ELSE Advance(_log_event(e, pid, "LOCK", "OK_ALREADY_HELD",
                               [target |-> ipc.id]),
                    i, "READY")

\* after ipc.unlock(pid): a new holder that is BLOCKED is made READY
WakeHolder(e, j) ==
    LET holder == e.ipcs[j].lock_holder
    IN IF holder # None /\ e.processes[ProcIdx(e, holder)].state = "BLOCKED"
       THEN [e EXCEPT !.processes[ProcIdx(e, holder)].state = "READY",
                      !.processes[ProcIdx(e, holder)].wait_reason = None]
       ELSE e

\* ExecUnlock that reports the wrong caller but releases the lock all the same
ExecUnlock_ReleasesAnyway(e, i, op, j) ==
    LET pid == e.processes[i].pid
        ipc == e.ipcs[j]
    IN IF ipc.lock_holder # pid
       THEN Advance(WakeHolder(_log_event([e EXCEPT !.ipcs[j] = unlock(ipc)],
                                          pid, "UNLOCK", "ERROR_NOT_HOLDER",
                                          [target |-> ipc.id,
                                           holder |-> ipc.lock_holder]),
                               j),
                    i, "READY")
       ELSE Advance(WakeHolder(_log_event([e EXCEPT !.ipcs[j] = unlock(ipc)],
                                          pid, "UNLOCK", "OK",
                                          [target |-> ipc.id]),
                               j),
                    i, "READY")

ExecUnlock(e, i, op, j) ==
    LET pid == e.processes[i].pid
        ipc == e.ipcs[j]
    IN IF ipc.lock_holder # pid
       THEN Advance(_log_event(e, pid, "UNLOCK", "ERROR_NOT_HOLDER",
                               [target |-> ipc.id, holder |-> ipc.lock_holder]),
                    i, "READY")
       ELSE Advance(WakeHolder(_log_event([e EXCEPT !.ipcs[j] = unlock(ipc)],
                                          pid, "UNLOCK", "OK",
                                          [target |-> ipc.id]),
                               j),
                    i, "READY")

\* ExecReadShm making a non-holder wait instead of flagging the read
ExecReadShm_Blocking(e, i, op, j) ==
    LET pid == e.processes[i].pid
        ipc == e.ipcs[j]
    IN IF ipc.lock_holder = pid
       THEN Advance(_log_event(e, pid, "READ_SHM", "OK",
                               [target |-> ipc.id, data |-> ipc.data]),
                    i, "READY")
       ELSE Block(_log_event(e, pid, "READ_SHM", "BLOCKED", [target |-> ipc.id]),
                  i, ipc.id, "Waiting lock on " \o ipc.id)

ExecReadShm(e, i, op, j) ==
    LET pid == e.processes[i].pid
        ipc == e.ipcs[j]
    IN IF ipc.lock_holder = pid
       THEN Advance(_log_event(e, pid, "READ_SHM", "OK",
                               [target |-> ipc.id, data |-> ipc.data]),
                    i, "READY")
       ELSE Advance(_log_event(e, pid, "READ_SHM", "UNSAFE",
                               [target |-> ipc.id, data |-> ipc.data]),
                    i, "READY")

\* ExecWriteShm dropping the write of a non-holder
ExecWriteShm_Guarded(e, i, op, j) ==
    LET pid == e.processes[i].pid
        ipc == e.ipcs[j]
    IN IF ipc.lock_holder = pid
       THEN Advance(_log_event([e EXCEPT !.ipcs[j].data = op.data],
                               pid, "WRITE_SHM", "OK",
                               [target |-> ipc.id, data |-> op.data]),
                    i, "READY")
       ELSE Advance(_log_event(e, pid, "WRITE_SHM", "UNSAFE",
                               [target |-> ipc.id, data |-> op.data]),
                    i, "READY")

ExecWriteShm(e, i, op, j) ==
    LET pid == e.processes[i].pid
        ipc == e.ipcs[j]
    IN IF ipc.lock_holder = pid
       THEN Advance(_log_event([e EXCEPT !.ipcs[j].data = op.data],
                               pid, "WRITE_SHM", "OK",
                               [target |-> ipc.id, data |-> op.data]),
                    i, "READY")
       ELSE Advance([_log_event(e, pid, "WRITE_SHM", "UNSAFE",
                                [target |-> ipc.id, data |-> op.data])
                        EXCEPT !.ipcs[j].data = op.data],
                    i, "READY")

\* _execute_operation where a missing target is skipped like the other errors
\* (the process stays READY)
_execute_operation_MissingTargetSkipped(e, i, op) ==
    LET pid == e.processes[i].pid
    IN IF op.op_type \in TargetedOps /\ op.target \notin IpcIds(e)
       THEN Advance(_log_event(e, pid, op.op_type, "ERROR_NO_SUCH_IPC",
                               [target |-> op.target]),
                    i, "READY")
       ELSE IF op.op_type = "NOP"
       THEN Advance(_log_event(e, pid, "NOP", "OK", <<>>), i, "READY")
       ELSE LET j == IpcIdx(e, op.target)
                ipc == e.ipcs[j]
            IN CASE op.op_type = "WRITE_PIPE" /\ isPipe(ipc) -> ExecWritePipe(e, i, op, j)
                 [] op.op_type = "READ_PIPE" /\ isPipe(ipc) -> ExecReadPipe(e, i, op, j)
                 [] op.op_type = "SEND_MSG" /\ isMessageQueue(ipc) -> ExecSendMsg(e, i, op, j)
                 [] op.op_type = "RECV_MSG" /\ isMessageQueue(ipc) -> ExecRecvMsg(e, i, op, j)
                 [] op.op_type = "LOCK" /\ isSharedMemory(ipc) -> ExecLock(e, i, op, j)
                 [] op.op_type = "UNLOCK" /\ isSharedMemory(ipc) -> ExecUnlock(e, i, op, j)
                 [] op.op_type = "READ_SHM" /\ isSharedMemory(ipc) -> ExecReadShm(e, i, op, j)
                 [] op.op_type = "WRITE_SHM" /\ isSharedMemory(ipc) -> ExecWriteShm(e, i, op, j)
                 [] OTHER ->
                      Advance(_log_event(e, pid, op.op_type, "ERROR_BAD_IPC_TYPE",
                                         [target |-> op.target]),
                              i, "READY")

\* SimulationEngine._execute_operation(proc, op), proc = processes[i]
_execute_operation(e, i, op) ==
    LET pid == e.processes[i].pid
    IN IF op.op_type \in TargetedOps /\ op.target \notin IpcIds(e)
       THEN Advance(_log_event(e, pid, op.op_type, "ERROR_NO_SUCH_IPC",
                               [target |-> op.target]),
                    i, "FINISHED")
       ELSE IF op.op_type = "NOP"
       THEN Advance(_log_event(e, pid, "NOP", "OK", <<>>), i, "READY")
       ELSE LET j == IpcIdx(e, op.target)
                ipc == e.ipcs[j]
            IN CASE op.op_type = "WRITE_PIPE" /\ isPipe(ipc) -> ExecWritePipe(e, i, op, j)
                 [] op.op_type = "READ_PIPE" /\ isPipe(ipc) -> ExecReadPipe(e, i, op, j)
                 [] op.op_type = "SEND_MSG" /\ isMessageQueue(ipc) -> ExecSendMsg(e, i, op, j)
                 [] op.op_type = "RECV_MSG" /\ isMessageQueue(ipc) -> ExecRecvMsg(e, i, op, j)
                 [] op.op_type = "LOCK" /\ isSharedMemory(ipc) -> ExecLock(e, i, op, j)
                 [] op.op_type = "UNLOCK" /\ isSharedMemory(ipc) -> ExecUnlock(e, i, op, j)
                 [] op.op_type = "READ_SHM" /\ isSharedMemory(ipc) -> ExecReadShm(e, i, op, j)
                 [] op.op_type = "WRITE_SHM" /\ isSharedMemory(ipc) -> ExecWriteShm(e, i, op, j)
                 [] OTHER ->
                      Advance(_log_event(e, pid, op.op_type, "ERROR_BAD_IPC_TYPE",
                                         [target |-> op.target]),
                              i, "READY")

\* --------------------------------------------------------------- scheduler
\* Scan with the cursor advanced past skipped processes only, not past the
\* process that executes
RECURSIVE Scan_CursorStuck(_, _)
Scan_CursorStuck(e, k) ==
    IF k = 0
    THEN Outcome(e, FALSE)
    ELSE LET n == Len(e.processes)
             i == e.sched_index + 1
             proc == e.processes[i]
             e1 == [e EXCEPT !.sched_index = (e.sched_index + 1) % n]
         IN IF proc.state \in {"FINISHED", "BLOCKED"}
            THEN Scan_CursorStuck(e1, k - 1)
            ELSE IF has_finished(proc)
            THEN Scan_CursorStuck([e1 EXCEPT !.processes[i].state = "FINISHED"],
                                  k - 1)
            ELSE _execute_operation([e EXCEPT !.processes[i].state = "RUNNING"],
                                    i, proc.operations[proc.pc + 1])

\* Scan that visits the processes in map order from the first one on every
\* tick, whatever the cursor says
RECURSIVE Scan_FixedPriority(_, _)
Scan_FixedPriority(e, k) ==
    IF k = 0
    THEN Outcome(e, FALSE)
    ELSE LET n == Len(e.processes)
             i == n - k + 1
             proc == e.processes[i]
             e1 == [e EXCEPT !.sched_index = i % n]
         IN IF proc.state \in {"FINISHED", "BLOCKED"}
            THEN Scan_FixedPriority(e1, k - 1)
            ELSE IF has_finished(proc)
            THEN Scan_FixedPriority([e1 EXCEPT !.processes[i].state = "FINISHED"],
                                    k - 1)
            ELSE _execute_operation([e1 EXCEPT !.processes[i].state = "RUNNING"],
                                    i, proc.operations[proc.pc + 1])

\* Scan that goes on scanning after a process has executed (no break)
RECURSIVE Scan_NoBreak(_, _)
Scan_NoBreak(e, k) ==
    IF k = 0
    THEN Outcome(e, FALSE)
    ELSE LET n == Len(e.processes)
             i == e.sched_index + 1
             proc == e.processes[i]
             e1 == [e EXCEPT !.sched_index = (e.sched_index + 1) % n]
         IN IF proc.state \in {"FINISHED", "BLOCKED"}
            THEN Scan_NoBreak(e1, k - 1)
            ELSE IF has_finished(proc)
            THEN Scan_NoBreak([e1 EXCEPT !.processes[i].state = "FINISHED"],
                              k - 1)
            ELSE LET r == _execute_operation(
                              [e1 EXCEPT !.processes[i].state = "RUNNING"],
                              i, proc.operations[proc.pc + 1])
                     r2 == Scan_NoBreak(r.eng, k - 1)
                 IN Outcome(r2.eng, r.progressed \/ r2.progressed)

\* The scan of step(): at most k more processes are visited from the cursor.
RECURSIVE Scan(_, _)
Scan(e, k) ==
    IF k = 0
    THEN Outcome(e, FALSE)
    ELSE LET n == Len(e.processes)
             i == e.sched_index + 1
             proc == e.processes[i]
             e1 == [e EXCEPT !.sched_index = (e.sched_index + 1) % n]
         IN IF proc.state \in {"FINISHED", "BLOCKED"}
            THEN Scan(e1, k - 1)
            ELSE IF has_finished(proc)
            THEN Scan([e1 EXCEPT !.processes[i].state = "FINISHED"], k - 1)
            ELSE _execute_operation([e1 EXCEPT !.processes[i].state = "RUNNING"],
                                    i, proc.operations[proc.pc + 1])

AllBlockedOrFinished(e) ==
    \A i \in 1..Len(e.processes) :
        e.processes[i].state \in {"BLOCKED", "FINISHED"}

\* DetectStall without the all-BLOCKED-or-FINISHED test
DetectStall_AnyStall(e, progressed) ==
    IF ~progressed /\ ~all_finished(e)
    THEN [e EXCEPT !.deadlocked = TRUE,
                   !.events = Append(@, Event(e.time, "SYSTEM", "DEADLOCK",
                                              "DETECTED", <<>>))]
    ELSE e

\* DetectStall that never raises the flag
DetectStall_NeverFlags(e, progressed) == e

\* DetectStall raising the flag as soon as some process is BLOCKED
DetectStall_AnyBlocked(e, progressed) ==
    IF ~all_finished(e)
       /\ \E i \in 1..Len(e.processes) : e.processes[i].state = "BLOCKED"
    THEN [e EXCEPT !.deadlocked = TRUE,
                   !.events = Append(@, Event(e.time, "SYSTEM", "DEADLOCK",
                                              "DETECTED", <<>>))]
    ELSE e

\* the global-deadlock check made after the scan
DetectStall(e, progressed) ==
    IF ~progressed /\ ~all_finished(e) /\ AllBlockedOrFinished(e)
    THEN [e EXCEPT !.deadlocked = TRUE,
                   !.events = Append(@, Event(e.time, "SYSTEM", "DEADLOCK",
                                              "DETECTED", <<>>))]
    ELSE e

\* StepOf that takes the snapshot only when the step made progress
StepOf_SnapshotOnProgress(e) ==
    IF e.deadlocked \/ all_finished(e) \/ Len(e.processes) = 0
    THEN Outcome(e, FALSE)
    ELSE LET r == Scan(e, Len(e.processes))
             e2 == DetectStall(r.eng, r.progressed)
             e3 == IF r.progressed THEN snapshot_states(e2) ELSE e2
         IN Outcome([e3 EXCEPT !.time = @ + 1], r.progressed)

\* StepOf without the early return on the deadlocked flag
StepOf_IgnoresDeadlocked(e) ==
    IF all_finished(e) \/ Len(e.processes) = 0
    THEN Outcome(e, FALSE)
    ELSE LET r == Scan(e, Len(e.processes))
             e2 == snapshot_states(DetectStall(r.eng, r.progressed))
         IN Outcome([e2 EXCEPT !.time = @ + 1], r.progressed)

\* SimulationEngine.step
StepOf(e) ==
    IF e.deadlocked \/ all_finished(e) \/ Len(e.processes) = 0
    THEN Outcome(e, FALSE)
    ELSE LET r == Scan(e, Len(e.processes))
             e2 == snapshot_states(DetectStall(r.eng, r.progressed))
         IN Outcome([e2 EXCEPT !.time = @ + 1], r.progressed)

\* RunLoop that raises the deadlocked flag when it leaves on a stall
RECURSIVE RunLoop_StallSetsDeadlocked(_, _, _)
RunLoop_StallSetsDeadlocked(e, steps, max_steps) ==
    IF steps < max_steps /\ ~all_finished(e) /\ ~e.deadlocked
    THEN LET r == StepOf(e)
         IN IF ~r.progressed /\ ~all_finished(r.eng)
            THEN [r.eng EXCEPT !.deadlocked = TRUE]
            ELSE RunLoop_StallSetsDeadlocked(r.eng, steps + 1, max_steps)
    ELSE e

\* SimulationEngine.run: the loop, with `steps` iterations counted so far
RECURSIVE RunLoop(_, _, _)
RunLoop(e, steps, max_steps) ==
    IF steps < max_steps /\ ~all_finished(e) /\ ~e.deadlocked
    THEN LET r == StepOf(e)
         IN IF ~r.progressed /\ ~all_finished(r.eng)
            THEN r.eng
            ELSE RunLoop(r.eng, steps + 1, max_steps)
    ELSE e

RunOf(e, max_steps) == RunLoop(e, 0, max_steps)

\* ---------------------------------------------------------------- analysis
\* The wait-for graph of detect_deadlock: a dict pid -> list of holders, as
\* its keys in insertion order and the list of each key.
EmptyWaitFor == [keys |-> <<>>, adj |-> <<>>]

AddWaitEdge(wf, waiting_pid, holder) ==
    IF waiting_pid \in DOMAIN wf.adj
    THEN [wf EXCEPT !.adj[waiting_pid] = Append(@, holder)]
    ELSE [keys |-> Append(wf.keys, waiting_pid),
          adj |-> [k \in (DOMAIN wf.adj) \cup {waiting_pid} |->
                     IF k = waiting_pid THEN <<holder>> ELSE wf.adj[k]]]

\* WaitEdgesOf with the edge drawn from the holder to the waiter
RECURSIVE WaitEdgesOf_HolderWaits(_, _, _)
WaitEdgesOf_HolderWaits(wf, ipc, k) ==
    IF k > Len(ipc.wait_queue)
    THEN wf
    ELSE WaitEdgesOf_HolderWaits(
             IF ipc.wait_queue[k] # ipc.lock_holder
             THEN AddWaitEdge(wf, ipc.lock_holder, ipc.wait_queue[k])
             ELSE wf,
             ipc, k + 1)

\* the edges one SharedMemory contributes, from wait_queue[k] on
RECURSIVE WaitEdgesOf(_, _, _)
WaitEdgesOf(wf, ipc, k) ==
    IF k > Len(ipc.wait_queue)
    THEN wf
    ELSE WaitEdgesOf(IF ipc.wait_queue[k] # ipc.lock_holder
                     THEN AddWaitEdge(wf, ipc.wait_queue[k], ipc.lock_holder)
                     ELSE wf,
                     ipc, k + 1)

\* the loop over sim.ipcs.values(), from ipcs[j] on
RECURSIVE BuildWaitFor(_, _, _)
BuildWaitFor(wf, e, j) ==
    IF j > Len(e.ipcs)
    THEN wf
    ELSE BuildWaitFor(IF isSharedMemory(e.ipcs[j]) /\ e.ipcs[j].lock_holder # None
                      THEN WaitEdgesOf(wf, e.ipcs[j], 1)
                      ELSE wf,
                      e, j + 1)

WaitForGraph(e) == BuildWaitFor(EmptyWaitFor, e, 1)

\* dfs(u) of detect_deadlock with its visited and stack sets threaded through;
\* DfsNeighbours is the loop over wait_for.get(u, []) from index k on
RECURSIVE Dfs(_, _, _, _), DfsNeighbours(_, _, _, _, _)
Dfs(wf, u, visited, stack) ==
    DfsNeighbours(wf, u, 1, visited \cup {u}, stack \cup {u})

DfsNeighbours(wf, u, k, visited, stack) ==
    LET nbrs == IF u \in DOMAIN wf.adj THEN wf.adj[u] ELSE <<>>
    IN IF k > Len(nbrs)
       THEN [found |-> FALSE, visited |-> visited, stack |-> stack \ {u}]
       ELSE LET v == nbrs[k]
            IN IF v \notin visited
               THEN LET r == Dfs(wf, v, visited, stack)
                    IN IF r.found
                       THEN r
                       ELSE DfsNeighbours(wf, u, k + 1, r.visited, r.stack)
               ELSE IF v \in stack
               THEN [found |-> TRUE, visited |-> visited, stack |-> stack]
               ELSE DfsNeighbours(wf, u, k + 1, visited, stack)

\* DeadlockedPids reporting only the key whose search found the cycle
RECURSIVE DeadlockedPids_StartOnly(_, _, _, _)
DeadlockedPids_StartOnly(wf, k, visited, stack) ==
    IF k > Len(wf.keys)
    THEN <<>>
    ELSE IF wf.keys[k] \notin visited
    THEN LET r == Dfs(wf, wf.keys[k], visited, stack)
         IN IF r.found
            THEN <<wf.keys[k]>>
            ELSE DeadlockedPids_StartOnly(wf, k + 1, r.visited, r.stack)
    ELSE DeadlockedPids_StartOnly(wf, k + 1, visited, stack)

\* DeadlockedPids reporting only the keys on the path of the search that
\* found the cycle
RECURSIVE DeadlockedPids_OnPathOnly(_, _, _, _)
DeadlockedPids_OnPathOnly(wf, k, visited, stack) ==
    IF k > Len(wf.keys)
    THEN <<>>
    ELSE IF wf.keys[k] \notin visited
    THEN LET r == Dfs(wf, wf.keys[k], visited, stack)
         IN IF r.found
            THEN SelectSeq(wf.keys, LAMBDA u : u \in r.stack)
            ELSE DeadlockedPids_OnPathOnly(wf, k + 1, r.visited, r.stack)
    ELSE DeadlockedPids_OnPathOnly(wf, k + 1, visited, stack)

\* the loop over list(wait_for.keys()) from index k on: the pids reported
RECURSIVE DeadlockedPids(_, _, _, _)
DeadlockedPids(wf, k, visited, stack) ==
    IF k > Len(wf.keys)
    THEN <<>>
    ELSE IF wf.keys[k] \notin visited
    THEN LET r == Dfs(wf, wf.keys[k], visited, stack)
         IN IF r.found
            THEN wf.keys
            ELSE DeadlockedPids(wf, k + 1, r.visited, r.stack)
    ELSE DeadlockedPids(wf, k + 1, visited, stack)

\* detect_deadlock that reports cycles only and ignores the engine's flag
detect_deadlock_CycleOnly(e) ==
    LET wf == WaitForGraph(e)
        pids == DeadlockedPids(wf, 1, {}, {})
    IN [is_deadlocked |-> Len(pids) > 0,
        pids |-> pids,
        wait_for_graph |-> wf]

\* AnalysisEngine.detect_deadlock
detect_deadlock(e) ==
    LET wf == WaitForGraph(e)
        pids == DeadlockedPids(wf, 1, {}, {})
    IN [is_deadlocked |-> e.deadlocked \/ Len(pids) > 0,
        pids |-> pids,
        wait_for_graph |-> wf]

\* the keys of block_counts_by_ipc in insertion order: the engine counts a
\* block and appends to block_events in the same branch, so a key is inserted
\* at the first entry of block_events that names it
RECURSIVE BlockCountKeysFrom(_, _, _)
BlockCountKeysFrom(e, k, keys) ==
    IF k > Len(e.block_events)
    THEN keys
    ELSE LET id == e.block_events[k][3]
         IN BlockCountKeysFrom(
                e, k + 1,
                IF id \in DOMAIN e.block_counts_by_ipc
                   /\ \A n \in 1..Len(keys) : keys[n] # id
                THEN Append(keys, id)
                ELSE keys)

BlockCountKeys(e) == BlockCountKeysFrom(e, 1, <<>>)

\* max(block_counts_by_ipc.values())
MaxBlocks(e) ==
    CHOOSE c \in {e.block_counts_by_ipc[id] : id \in DOMAIN e.block_counts_by_ipc} :
        \A id \in DOMAIN e.block_counts_by_ipc : e.block_counts_by_ipc[id] <= c

\* the loop over block_counts_by_ipc.items() from key k on
RECURSIVE BottlenecksFrom(_, _, _, _)
BottlenecksFrom(e, keys, k, max_blocks) ==
    IF k > Len(keys)
    THEN <<>>
    ELSE LET count == e.block_counts_by_ipc[keys[k]]
             rest == BottlenecksFrom(e, keys, k + 1, max_blocks)
         IN IF count >= max_blocks /\ count > 0
            THEN <<[ipc_id |-> keys[k], block_count |-> count]>> \o rest
            ELSE rest

\* detect_bottlenecks reporting every IPC object that blocked at all
detect_bottlenecks_AnyBlocked(e) ==
    IF DOMAIN e.block_counts_by_ipc = {}
    THEN <<>>
    ELSE BottlenecksFrom(e, BlockCountKeys(e), 1, 0)

\* AnalysisEngine.detect_bottlenecks
detect_bottlenecks(e) ==
    IF DOMAIN e.block_counts_by_ipc = {}
    THEN <<>>
    ELSE BottlenecksFrom(e, BlockCountKeys(e), 1, MaxBlocks(e))

\* --------------------------------------------------------------- scenarios
Scenario(procs, ipcList) == [processes |-> procs, ipcs |-> ipcList]

ProducerOps ==
    <<Operation("WRITE_PIPE", "pipe1", "item1"),
      Operation("WRITE_PIPE", "pipe1", "item2"),
      Operation("WRITE_PIPE", "pipe1", "item3")>>

ConsumerOps ==
    <<Operation("READ_PIPE", "pipe1", None),
      Operation("READ_PIPE", "pipe1", None),
      Operation("READ_PIPE", "pipe1", None)>>

\* scenarios/producer_consumer.py
build_producer_consumer_scenario ==
    Scenario(<<Process("P1", "Producer", ProducerOps),
               Process("P2", "Consumer", ConsumerOps)>>,
             <<Pipe("pipe1", 2)>>)

LockABOps ==
    <<Operation("LOCK", "A", None), Operation("LOCK", "B", None),
      Operation("WRITE_SHM", "A", 1),
      Operation("UNLOCK", "B", None), Operation("UNLOCK", "A", None)>>

LockBAOps ==
    <<Operation("LOCK", "B", None), Operation("LOCK", "A", None),
      Operation("WRITE_SHM", "B", 2),
      Operation("UNLOCK", "A", None), Operation("UNLOCK", "B", None)>>

\* scenarios/deadlock_demo.py
build_deadlock_scenario ==
    Scenario(<<Process("P1", "P1", LockABOps), Process("P2", "P2", LockBAOps)>>,
             <<SharedMemory("A", 0), SharedMemory("B", 0)>>)

\* Operation lists the generated scenarios assign to their processes; between
\* them they reach every branch of the dispatch.
Programs ==
    {<<>>,
     <<Operation("WRITE_PIPE", "pipe1", "a"), Operation("WRITE_PIPE", "pipe1", "b")>>,
     <<Operation("NOP", None, None), Operation("READ_PIPE", "pipe1", None),
       Operation("READ_PIPE", "pipe1", None)>>,
     <<Operation("SEND_MSG", "q1", "m1"), Operation("SEND_MSG", "q1", "m2")>>,
     <<Operation("RECV_MSG", "q1", None), Operation("NOP", None, None)>>,
     <<Operation("LOCK", "A", None), Operation("LOCK", "A", None),
       Operation("LOCK", "B", None), Operation("WRITE_SHM", "A", 1),
       Operation("UNLOCK", "A", None)>>,
     <<Operation("LOCK", "B", None), Operation("LOCK", "A", None),
       Operation("READ_SHM", "B", None), Operation("UNLOCK", "B", None)>>,
     <<Operation("WRITE_SHM", "A", 7), Operation("READ_SHM", "A", None),
       Operation("UNLOCK", "A", None), Operation("SEND_MSG", "pipe1", "m3"),
       Operation("READ_PIPE", "nox", None), Operation("NOP", None, None)>>}

PidNames == <<"P1", "P2", "P3">>

GeneratedIpcs(capacity) ==
    <<Pipe("pipe1", capacity), MessageQueue("q1", 1),
      SharedMemory("A", 0), SharedMemory("B", 0)>>

GeneratedScenarios ==
    UNION {
        {Scenario([i \in 1..n |-> Process(PidNames[i], PidNames[i], progs[i])],
                  GeneratedIpcs(capacity)) :
            progs \in [1..n -> Programs], capacity \in 0..MaxCap} :
        n \in 2..Len(PidNames)}

Scenarios ==
    {build_producer_consumer_scenario, build_deadlock_scenario}
        \cup GeneratedScenarios

\* ------------------------------------------------------------- transitions
PyBool(b) == IF b THEN "True" ELSE "False"

Install(e) ==
    /\ processes' = e.processes
    /\ ipcs' = e.ipcs
    /\ time' = e.time
    /\ events' = e.events
    /\ deadlocked' = e.deadlocked
    /\ sched_index' = e.sched_index
    /\ state_history' = e.state_history
    /\ block_counts_by_ipc' = e.block_counts_by_ipc
    /\ block_events' = e.block_events

Init ==
    \E sc \in Scenarios :
        LET e == NewEngine(sc.processes, sc.ipcs)
        IN /\ processes = e.processes
           /\ ipcs = e.ipcs
           /\ time = e.time
           /\ events = e.events
           /\ deadlocked = e.deadlocked
           /\ sched_index = e.sched_index
           /\ state_history = e.state_history
           /\ block_counts_by_ipc = e.block_counts_by_ipc
           /\ block_events = e.block_events
           /\ ret = None
           /\ resets = 0

\* a call of step(); ret records the last call: the bool step returned, None
\* for run and reset, the name of the method for a call of the analysis layer
Step ==
    \E r \in {StepOf(Cur)} :
       /\ Install(r.eng)
       /\ ret' = PyBool(r.progressed)
       /\ UNCHANGED resets

\* a call of run(max_steps)
Run ==
    \E max_steps \in (0..MaxSteps) \cup {DefaultMaxSteps} :
        /\ \E e \in {RunOf(Cur, max_steps)} : Install(e)
        /\ ret' = None
        /\ UNCHANGED resets

\* a call of reset()
Reset ==
    /\ resets < MaxResets
    /\ \E e \in {ResetOf(Cur)} : Install(e)
    /\ ret' = None
    /\ resets' = resets + 1

Next == Step \/ Run \/ Reset

Spec == Init /\ [][Next]_vars

\* one engine, constructed and then only stepped or run (no reset)
NextRun == Step \/ Run

SpecRun == Init /\ [][NextRun]_vars

\* ------------------------------------------------- vocabulary of the claims
\* step() and run() return at once in these states
Terminal(e) == e.deadlocked \/ all_finished(e)

\* The process step()'s scan executes from cursor idx with k visits left
\* (its index in processes), 0 when the scan executes none.
RECURSIVE ScanPick(_, _, _)
ScanPick(e, idx, k) ==
    IF k = 0
    THEN 0
    ELSE LET proc == e.processes[idx + 1]
         IN IF proc.state \in {"FINISHED", "BLOCKED"} \/ has_finished(proc)
            THEN ScanPick(e, (idx + 1) % Len(e.processes), k - 1)
            ELSE idx + 1

Scheduled(e) ==
    IF Terminal(e) THEN 0 ELSE ScanPick(e, e.sched_index, Len(e.processes))

\* the operation at a process's pc
CurOp(e, i) == e.processes[i].operations[e.processes[i].pc + 1]

\* the transition is a call of step(): only step returns a bool
StepCalled == ret' \in {"True", "False"}

\* the events a transition appends
NewEvents == SubSeq(events', Len(events) + 1, Len(events'))

\* process i is at an operation on an existing IPC object of the given variant
AtOpOn(e, i, op_types, ipc_type) ==
    /\ ~has_finished(e.processes[i])
    /\ CurOp(e, i).op_type \in op_types
    /\ CurOp(e, i).target \in IpcIds(e)
    /\ e.ipcs[IpcIdx(e, CurOp(e, i).target)].ipc_type = ipc_type

TargetOf(e, i) == e.ipcs[IpcIdx(e, CurOp(e, i).target)]

\* the FIFO of a Pipe or MessageQueue
Fifo(ipc) == IF isPipe(ipc) THEN ipc.buffer ELSE ipc.queue

\* process i is at a WRITE_PIPE/SEND_MSG or READ_PIPE/RECV_MSG on a matching
\* Pipe/MessageQueue
AtFifoWrite(e, i) ==
    \/ AtOpOn(e, i, {"WRITE_PIPE"}, "PIPE")
    \/ AtOpOn(e, i, {"SEND_MSG"}, "MSG_QUEUE")

AtFifoRead(e, i) ==
    \/ AtOpOn(e, i, {"READ_PIPE"}, "PIPE")
    \/ AtOpOn(e, i, {"RECV_MSG"}, "MSG_QUEUE")

\* ... and the FIFO is full (for a write) or empty (for a read)
FifoOpMustBlock(e, i) ==
    \/ AtFifoWrite(e, i) /\ Len(Fifo(TargetOf(e, i))) = TargetOf(e, i).capacity
    \/ AtFifoRead(e, i) /\ Len(Fifo(TargetOf(e, i))) = 0

\* ... and the FIFO has room (for a write) or an item (for a read)
FifoOpCanProceed(e, i) ==
    \/ AtFifoWrite(e, i) /\ Len(Fifo(TargetOf(e, i))) < TargetOf(e, i).capacity
    \/ AtFifoRead(e, i) /\ Len(Fifo(TargetOf(e, i))) > 0

ProcIndices == 1..Len(processes)
IpcIndices == 1..Len(ipcs)

\* ------------------------------------------------------------------ claims

\* C1: a process BLOCKED on a pipe/queue operation is re-checked on a later
\* turn and performs the operation once the FIFO allows it.  Stated on the
\* states in which the engine has stopped scheduling (deadlocked is set, so
\* every further step is a no-op): no process is then left BLOCKED on a
\* pipe/queue operation that the FIFO would now let through.
C1_BlockedFifoOpIsRetried ==
    deadlocked =>
        \A i \in ProcIndices :
            processes[i].state = "BLOCKED" => ~FifoOpCanProceed(Cur, i)

\* C2: a step that schedules a process at a write to a full (read from an
\* empty) Pipe/MessageQueue appends exactly one event for that process, a
\* BLOCKED one, leaves the process BLOCKED at the same pc, leaves every IPC
\* object as it was, adds one to that object's block counter and returns False.
C2_FullOrEmptyFifoBlocks ==
    [][\A i \in ProcIndices :
          (StepCalled /\ Scheduled(Cur) = i /\ FifoOpMustBlock(Cur, i)) =>
              LET pid == processes[i].pid
                  op == CurOp(Cur, i)
              IN /\ SelectSeq(NewEvents, LAMBDA ev : ev.pid = pid)
                       = <<Event(time, pid, op.op_type, "BLOCKED",
                                 [target |-> op.target])>>
                 /\ processes'[i].state = "BLOCKED"
                 /\ processes'[i].pc = processes[i].pc
                 /\ ipcs' = ipcs
                 /\ BlockCount(Cur', op.target) = BlockCount(Cur, op.target) + 1
                 /\ \A id \in IpcIds(Cur) \ {op.target} :
                        BlockCount(Cur', id) = BlockCount(Cur, id)
                 /\ ret' = "False"]_vars

BlockedActions ==
    {events[k].action : k \in {n \in 1..Len(events) : events[n].result = "BLOCKED"}}

\* C2 witness: the last step returned False and the log holds BLOCKED events
\* of a pipe write, a queue send and a queue receive.
C2_Witness ==
    /\ ret = "False"
    /\ {"WRITE_PIPE", "SEND_MSG", "RECV_MSG"} \subseteq BlockedActions

\* the scenario an engine state was built from: its processes and IPC objects
\* as constructed
IsScenario(sc) ==
    /\ Len(processes) = Len(sc.processes)
    /\ Len(ipcs) = Len(sc.ipcs)
    /\ \A i \in ProcIndices :
          /\ processes[i].pid = sc.processes[i].pid
          /\ processes[i].name = sc.processes[i].name
          /\ Len(processes[i].operations) = Len(sc.processes[i].operations)
          /\ \A k \in 1..Len(processes[i].operations) :
                /\ processes[i].operations[k].op_type
                      = sc.processes[i].operations[k].op_type
                /\ processes[i].operations[k].target
                      = sc.processes[i].operations[k].target
                /\ processes[i].operations[k] = sc.processes[i].operations[k]
    /\ \A j \in IpcIndices :
          /\ ipcs[j].id = sc.ipcs[j].id
          /\ ipcs[j].ipc_type = sc.ipcs[j].ipc_type
          /\ isSharedMemory(ipcs[j]) \/ ipcs[j].capacity = sc.ipcs[j].capacity

IsProducerConsumer == IsScenario(build_producer_consumer_scenario)
IsDeadlockScenario == IsScenario(build_deadlock_scenario)

\* the BLOCKED events of a process
BlockedEventsOf(pid) ==
    SelectSeq(events, LAMBDA ev : ev.pid = pid /\ ev.result = "BLOCKED")

\* the number of events of process pid before position k with the given
\* action and result
PriorCount(pid, action, result, k) ==
    Cardinality({n \in 1..(k - 1) :
                    /\ events[n].pid = pid
                    /\ events[n].action = action
                    /\ events[n].result = result})

\* C3 as claimed: in the producer/consumer scenario, once the run is complete
\* the producer P1 has been BLOCKED exactly once, on its third WRITE_PIPE
\* (after two successful writes).
C3_ProducerBlockedOnceOnThirdWrite ==
    (IsProducerConsumer /\ all_finished(Cur)) =>
        /\ Len(BlockedEventsOf("P1")) = 1
        /\ \A k \in 1..Len(events) :
              (events[k].pid = "P1" /\ events[k].result = "BLOCKED") =>
                  /\ events[k].action = "WRITE_PIPE"
                  /\ PriorCount("P1", "WRITE_PIPE", "OK", k) = 2

\* C3 as amended: in the producer/consumer scenario no process is ever
\* BLOCKED: the log never holds a BLOCKED event, and the completed run's log
\* is the six OK events of the writes and reads, alternating, at ticks 0..5.
C3_ProducerNeverBlocked ==
    IsProducerConsumer =>
        /\ \A k \in 1..Len(events) : events[k].result # "BLOCKED"
        /\ \A i \in ProcIndices : processes[i].state # "BLOCKED"
        /\ all_finished(Cur) =>
              /\ Len(events) = 6
              /\ \A k \in 1..6 :
                    /\ events[k].time = k - 1
                    /\ events[k].result = "OK"
                    /\ events[k].pid = (IF k % 2 = 1 THEN "P1" ELSE "P2")
                    /\ events[k].action
                          = (IF k % 2 = 1 THEN "WRITE_PIPE" ELSE "READ_PIPE")

\* C3 witness: the producer/consumer run is complete after six ticks.
C3_Witness == IsProducerConsumer /\ all_finished(Cur) /\ time = 6

\* the payloads of the OK events of the given actions on IPC object id, in
\* log order
Payloads(actions, id) ==
    LET sel == SelectSeq(events, LAMBDA ev : /\ ev.action \in actions
                                       /\ ev.result = "OK"
                                       /\ ev.details.target = id)
    IN [k \in 1..Len(sel) |-> sel[k].details.data]

Written(id) == Payloads({"WRITE_PIPE", "SEND_MSG"}, id)
ReadBack(id) == Payloads({"READ_PIPE", "RECV_MSG"}, id)

IsPrefix(a, b) == Len(a) <= Len(b) /\ SubSeq(b, 1, Len(a)) = a

Range(seq) == {seq[k] : k \in 1..Len(seq)}

\* C5: in the opposite-order locking scenario (P1: LOCK A, LOCK B, ...;
\* P2: LOCK B, LOCK A, ...), from the fourth tick on detect_deadlock reports
\* is_deadlocked = true and its pids hold both P1 and P2.
C5_OppositeOrderLockingDeadlocks ==
    (IsDeadlockScenario /\ time >= 4) =>
        /\ detect_deadlock(Cur).is_deadlocked
        /\ {"P1", "P2"} \subseteq Range(detect_deadlock(Cur).pids)

\* C5 witness: the deadlock scenario after four steps, each process waiting in
\* the queue of the lock the other holds.
C5_Witness ==
    /\ IsDeadlockScenario /\ time = 4 /\ resets = 0
    /\ ipcs[1].lock_holder = "P1" /\ ipcs[1].wait_queue = <<"P2">>
    /\ ipcs[2].lock_holder = "P2" /\ ipcs[2].wait_queue = <<"P1">>
    /\ detect_deadlock(Cur).pids = <<"P2", "P1">>

\* the <<action, result>> pairs of the log
Outcomes == {<<events[k].action, events[k].result>> : k \in 1..Len(events)}

\* position in the log of the LOCK ... BLOCKED event of pid on IPC object id
\* (0 when there is none)
BlockedOnLockAt(pid, id) ==
    LET ks == {k \in 1..Len(events) :
                  /\ events[k].pid = pid
                  /\ events[k].action = "LOCK"
                  /\ events[k].result = "BLOCKED"
                  /\ events[k].details.target = id}
    IN IF ks = {} THEN 0 ELSE CHOOSE k \in ks : \A n \in ks : n <= k

\* C6: when the lock holder of a SharedMemory executes UNLOCK, then in that
\* same step: if the wait_queue is non-empty its head is removed and becomes
\* lock_holder, and if that process was BLOCKED it is READY with no
\* wait_reason; if the wait_queue is empty the lock becomes free.  Waiters
\* join the queue at its tail when they block, so hand-off is in FIFO order.
C6_UnlockHandsOverToQueueHead ==
    [][\A i \in ProcIndices :
          /\ (/\ StepCalled /\ Scheduled(Cur) = i
              /\ AtOpOn(Cur, i, {"UNLOCK"}, "SHARED_MEMORY")
              /\ TargetOf(Cur, i).lock_holder = processes[i].pid) =>
                 LET j == IpcIdx(Cur, CurOp(Cur, i).target)
                     wq == ipcs[j].wait_queue
                 IN IF Len(wq) > 0
                    THEN /\ ipcs'[j].lock_holder = Head(wq)
                         /\ ipcs'[j].wait_queue = Tail(wq)
                         /\ processes[ProcIdx(Cur, Head(wq))].state = "BLOCKED" =>
                               /\ processes'[ProcIdx(Cur, Head(wq))].state = "READY"
                               /\ processes'[ProcIdx(Cur, Head(wq))].wait_reason = None
                    ELSE /\ ipcs'[j].lock_holder = None
                         /\ ipcs'[j].wait_queue = <<>>
          /\ (/\ StepCalled /\ Scheduled(Cur) = i
              /\ AtOpOn(Cur, i, {"LOCK"}, "SHARED_MEMORY")
              /\ TargetOf(Cur, i).lock_holder \notin {None, processes[i].pid}) =>
                 LET j == IpcIdx(Cur, CurOp(Cur, i).target)
                 IN ipcs'[j].wait_queue
                       = Append(ipcs[j].wait_queue, processes[i].pid)]_vars

\* C6 witness: the last step was an UNLOCK ... OK that handed the lock to a
\* waiter, now READY, which had blocked before the waiter still queued.
C6_Witness ==
    /\ ret = "True" /\ Len(events) > 0
    /\ events[Len(events)].action = "UNLOCK"
    /\ events[Len(events)].result = "OK"
    /\ LET ipc == ipcs[IpcIdx(Cur, events[Len(events)].details.target)]
       IN /\ ipc.lock_holder \notin {None, events[Len(events)].pid}
          /\ processes[ProcIdx(Cur, ipc.lock_holder)].state = "READY"
          /\ processes[ProcIdx(Cur, ipc.lock_holder)].wait_reason = None
          /\ Len(ipc.wait_queue) = 1
          /\ BlockedOnLockAt(ipc.lock_holder, ipc.id) > 0
          /\ BlockedOnLockAt(ipc.lock_holder, ipc.id)
                < BlockedOnLockAt(ipc.wait_queue[1], ipc.id)

\* C7: READ_SHM and WRITE_SHM on a SharedMemory never block: the step that
\* executes one leaves the process READY with pc advanced by one, returns
\* True, and logs one event whose result is UNSAFE exactly when the caller is
\* not the lock_holder and OK exactly when it is.
C7_ShmAccessNeverBlocks ==
    [][\A i \in ProcIndices :
          (/\ StepCalled /\ Scheduled(Cur) = i
           /\ AtOpOn(Cur, i, {"READ_SHM", "WRITE_SHM"}, "SHARED_MEMORY")) =>
              LET held == TargetOf(Cur, i).lock_holder = processes[i].pid
              IN /\ processes'[i].state = "READY"
                 /\ processes'[i].pc = processes[i].pc + 1
                 /\ ret' = "True"
                 /\ Len(NewEvents) = 1
                 /\ NewEvents[1].pid = processes[i].pid
                 /\ NewEvents[1].action = CurOp(Cur, i).op_type
                 /\ NewEvents[1].result = "UNSAFE" <=> ~held
                 /\ NewEvents[1].result = "OK" <=> held]_vars

\* C7 witness: a log with a WRITE_SHM by the holder (OK) and a READ_SHM and a
\* WRITE_SHM by a non-holder (UNSAFE), no process BLOCKED.
C7_Witness ==
    /\ {<<"WRITE_SHM", "OK">>, <<"WRITE_SHM", "UNSAFE">>,
        <<"READ_SHM", "UNSAFE">>} \subseteq Outcomes
    /\ \A i \in ProcIndices : processes[i].state # "BLOCKED"

\* C8: a WRITE_SHM executed by a process that does not hold the lock still
\* stores its payload in the data cell, and a READ_SHM by any process leaves
\* the data cell, lock_holder and wait_queue as they were.
C8_UnsafeWriteStoresReadChangesNothing ==
    [][\A i \in ProcIndices :
          /\ (/\ StepCalled /\ Scheduled(Cur) = i
              /\ AtOpOn(Cur, i, {"WRITE_SHM"}, "SHARED_MEMORY")
              /\ TargetOf(Cur, i).lock_holder # processes[i].pid) =>
                 ipcs'[IpcIdx(Cur, CurOp(Cur, i).target)].data
                    = CurOp(Cur, i).data
          /\ (/\ StepCalled /\ Scheduled(Cur) = i
              /\ AtOpOn(Cur, i, {"READ_SHM"}, "SHARED_MEMORY")) =>
                 LET j == IpcIdx(Cur, CurOp(Cur, i).target)
                 IN /\ ipcs'[j].data = ipcs[j].data
                    /\ ipcs'[j].lock_holder = ipcs[j].lock_holder
                    /\ ipcs'[j].wait_queue = ipcs[j].wait_queue]_vars

\* C8 witness: the last step was a WRITE_SHM ... UNSAFE on an object another
\* process holds, and the data cell now has the written payload.
C8_Witness ==
    /\ Len(events) > 0
    /\ events[Len(events)].action = "WRITE_SHM"
    /\ events[Len(events)].result = "UNSAFE"
    /\ LET ipc == ipcs[IpcIdx(Cur, events[Len(events)].details.target)]
       IN /\ ipc.lock_holder \notin {None, events[Len(events)].pid}
          /\ ipc.data = 7

DeadlockEvents(evs) ==
    SelectSeq(evs, LAMBDA ev : ev.pid = "SYSTEM" /\ ev.action = "DEADLOCK")

\* C9: step in a terminal state (deadlocked, or every process at the end of
\* its operations) returns False and changes nothing, and so does run; hence
\* deadlocked stays true under step and run, and the log never holds more
\* than one DEADLOCK event.
C9_TerminalStepIsNoOp ==
    [][/\ (Terminal(Cur) /\ resets' = resets) =>
             /\ UNCHANGED <<processes, ipcs, time, events, deadlocked,
                            sched_index, state_history, block_counts_by_ipc,
                            block_events>>
             /\ ret' # "True"
       /\ (deadlocked /\ resets' = resets) => deadlocked'
       /\ Len(DeadlockEvents(events')) <= 1]_vars

\* C9 witness: step has been called with every process at the end of its
\* operations (no step that executes an operation returns False with all
\* finished).
C9_Witness ==
    /\ all_finished(Cur) /\ ret = "False" /\ time > 0
    /\ Len(DeadlockEvents(events)) = 0

\* C10: a step that runs (not terminal) sets deadlocked exactly when it made
\* no progress, not all processes are at the end of their operations and every
\* process is BLOCKED or FINISHED after the scan; exactly then it appends one
\* event (SYSTEM, DEADLOCK, DETECTED) stamped with the step's tick, as the last
\* event; a step in a terminal state appends nothing.
C10_DeadlockFlagAndEvent ==
    [][/\ (StepCalled /\ ~Terminal(Cur)) =>
             LET stalled == /\ ret' = "False"
                            /\ ~all_finished(Cur')
                            /\ AllBlockedOrFinished(Cur')
             IN /\ deadlocked' <=> stalled
                /\ stalled =>
                      /\ DeadlockEvents(NewEvents)
                            = <<Event(time, "SYSTEM", "DEADLOCK", "DETECTED", <<>>)>>
                      /\ NewEvents[Len(NewEvents)].action = "DEADLOCK"
                /\ ~stalled => DeadlockEvents(NewEvents) = <<>>
       /\ (StepCalled /\ Terminal(Cur)) =>
             /\ NewEvents = <<>>
             /\ deadlocked' = deadlocked]_vars

\* C10 witness: the last step found every process BLOCKED or FINISHED, one of
\* them BLOCKED, and appended the DEADLOCK event of its tick.
C10_Witness ==
    /\ deadlocked /\ ret = "False" /\ Len(events) > 0
    /\ events[Len(events)]
          = Event(time - 1, "SYSTEM", "DEADLOCK", "DETECTED", <<>>)
    /\ \E i \in ProcIndices : processes[i].state = "BLOCKED"
    /\ \E i \in ProcIndices : processes[i].state = "FINISHED"

\* the events of a sequence that a process (not the engine itself) emitted
ProcessEvents(evs) == SelectSeq(evs, LAMBDA ev : ev.pid # "SYSTEM")

\* C11: within one tick at most one process executes at most one operation:
\* a step that runs changes the pc of at most one process, by +1, appends at
\* most one non-SYSTEM event, and every event it appends carries the step's
\* tick; event times never decrease along the log.
C11_OneOperationPerTick ==
    [][/\ (StepCalled /\ ~Terminal(Cur)) =>
             /\ Cardinality({i \in ProcIndices :
                                processes'[i].pc # processes[i].pc}) <= 1
             /\ \A i \in ProcIndices :
                   processes'[i].pc \in {processes[i].pc, processes[i].pc + 1}
             /\ Len(ProcessEvents(NewEvents)) <= 1
             /\ \A k \in 1..Len(NewEvents) : NewEvents[k].time = time
       /\ \A k \in 1..(Len(events') - 1) :
             events'[k].time <= events'[k + 1].time]_vars

\* C11 witness: the last step appended two events of the same tick (one of a
\* process, then the SYSTEM one) after events of an earlier tick, with other
\* processes still having operations left.
C11_Witness ==
    /\ Len(events) >= 3
    /\ events[Len(events)].pid = "SYSTEM"
    /\ events[Len(events) - 1].pid # "SYSTEM"
    /\ events[Len(events) - 1].time = events[Len(events)].time
    /\ events[Len(events) - 2].time < events[Len(events) - 1].time
    /\ events[Len(events)].time = time - 1
    /\ Cardinality({i \in ProcIndices : ~has_finished(processes[i])}) >= 2

\* ticks at which process pid executed an operation, read off the log
ExecTicks(pid) == {events[k].time : k \in {n \in 1..Len(events) : events[n].pid = pid}}

\* pc of process pid at the start of tick t: every logged operation that did
\* not block advanced it by one
PcAt(pid, t) ==
    Cardinality({k \in 1..Len(events) :
                    /\ events[k].pid = pid
                    /\ events[k].time < t
                    /\ events[k].result # "BLOCKED"})

\* state of process pid at the start of tick t: the snapshot of tick t - 1
StateAt(pid, t) == IF t = 0 THEN "READY" ELSE state_history[pid][t]

\* process i could be picked by the scan of tick t
EligibleAt(i, t) ==
    /\ StateAt(processes[i].pid, t) = "READY"
    /\ PcAt(processes[i].pid, t) < Len(processes[i].operations)

\* t1 < t2 are consecutive ticks at which process i executed
ConsecutiveExecs(i, t1, t2) ==
    /\ t1 \in ExecTicks(processes[i].pid)
    /\ t2 \in ExecTicks(processes[i].pid)
    /\ t1 < t2
    /\ \A t \in (t1 + 1)..(t2 - 1) : t \notin ExecTicks(processes[i].pid)

\* the step executes the first eligible process from the cursor and leaves
\* the cursor just past it
PicksFirstFromCursor ==
    (StepCalled /\ ~Terminal(Cur)) =>
        IF Scheduled(Cur) = 0
        THEN ProcessEvents(NewEvents) = <<>>
        ELSE /\ Len(ProcessEvents(NewEvents)) = 1
             /\ ProcessEvents(NewEvents)[1].pid = processes[Scheduled(Cur)].pid
             /\ sched_index' = Scheduled(Cur) % Len(processes)

\* the last tick before the current one at which process i executed (-1 when
\* it has not executed yet)
LastTurn(i) ==
    IF ExecTicks(processes[i].pid) = {}
    THEN -1
    ELSE CHOOSE t \in ExecTicks(processes[i].pid) :
            \A u \in ExecTicks(processes[i].pid) : u <= t

\* process q was READY with operations left at every tick after t1 up to now
\* and executed exactly once since t1
StayedReadySince(q, t1) == \A t \in (t1 + 1)..time : EligibleAt(q, t)

ExecutedOnceSince(q, t1) ==
    Cardinality(ExecTicks(processes[q].pid) \cap ((t1 + 1)..(time - 1))) = 1

\* C12 as stated: each step executes the first process in cyclic order from
\* the cursor that is neither BLOCKED nor FINISHED and has operations left,
\* and leaves the cursor just past it; when a process executes again, every
\* other process that stayed READY with operations remaining since its last
\* turn has executed exactly once in between.
C12_ExactlyOnceBetweenAnyTwoTurns ==
    [][/\ PicksFirstFromCursor
       /\ \A p \in ProcIndices : \A q \in ProcIndices \ {p} :
             (/\ StepCalled /\ Scheduled(Cur) = p
              /\ LastTurn(p) >= 0
              /\ StayedReadySince(q, LastTurn(p))) =>
                 ExecutedOnceSince(q, LastTurn(p))]_vars

\* C12 amended: the same, for a process that was not BLOCKED at any tick since
\* its last turn.
C12_RoundRobinFromCursor ==
    [][/\ PicksFirstFromCursor
       /\ \A p \in ProcIndices : \A q \in ProcIndices \ {p} :
             (/\ StepCalled /\ Scheduled(Cur) = p
              /\ LastTurn(p) >= 0
              /\ \A t \in (LastTurn(p) + 1)..time :
                    StateAt(processes[p].pid, t) # "BLOCKED"
              /\ StayedReadySince(q, LastTurn(p))) =>
                 ExecutedOnceSince(q, LastTurn(p))]_vars

\* C12 witness: three processes, the cursor has wrapped around, and between
\* two consecutive turns of one process, never BLOCKED, the two others, READY
\* with operations left throughout, each executed once.
C12_Witness ==
    /\ Len(processes) = 3
    /\ \E p \in ProcIndices :
       \E t1 \in ExecTicks(processes[p].pid) :
       \E t2 \in ExecTicks(processes[p].pid) :
          /\ ConsecutiveExecs(p, t1, t2)
          /\ t2 = t1 + 3
          /\ \A t \in (t1 + 1)..t2 : StateAt(processes[p].pid, t) # "BLOCKED"
          /\ \A q \in ProcIndices \ {p} :
                /\ \A t \in (t1 + 1)..t2 : EligibleAt(q, t)
                /\ Cardinality(ExecTicks(processes[q].pid)
                                  \cap ((t1 + 1)..(t2 - 1))) = 1

\* C13: every step that runs advances time by exactly one and appends to each
\* process's state history exactly one snapshot, the state the process has
\* when the step returns, with or without progress or deadlock; so every
\* state history is as long as time.
C13_OneSnapshotPerTick ==
    [][/\ (StepCalled /\ ~Terminal(Cur)) =>
             /\ time' = time + 1
             /\ DOMAIN state_history' = Pids(Cur)
             /\ \A i \in ProcIndices :
                   state_history'[processes[i].pid]
                      = Append(state_history[processes[i].pid],
                               processes'[i].state)
       /\ \A i \in ProcIndices : Len(state_history[processes[i].pid]) = time
       /\ \A i \in ProcIndices : Len(state_history'[processes'[i].pid]) = time']_vars

\* C13 witness: after a step without progress that detected a deadlock the
\* histories are as long as time and end with that step's snapshot.
C13_Witness ==
    /\ deadlocked /\ ret = "False" /\ time >= 3
    /\ \A i \in ProcIndices :
          /\ Len(state_history[processes[i].pid]) = time
          /\ state_history[processes[i].pid][time] = processes[i].state
    /\ \E i \in ProcIndices :
          /\ state_history[processes[i].pid][time - 1] = "READY"
          /\ state_history[processes[i].pid][time] = "BLOCKED"

\* tr extended by the outcomes (engine afterwards, value returned) of n more
\* calls of step
RECURSIVE StepTraceFrom(_, _)
StepTraceFrom(tr, n) ==
    IF n = 0
    THEN tr
    ELSE StepTraceFrom(Append(tr, StepOf(tr[Len(tr)].eng)), n - 1)

\* the outcomes of n successive calls of step from e, after e itself
StepTrace(e, n) == StepTraceFrom(<<Outcome(e, TRUE)>>, n)

\* the values run() may be called with
MaxStepsArgs == (0..MaxSteps) \cup {DefaultMaxSteps}

\* what run(m) promises when it takes the engine from e to e2: it made
\* n <= m calls of step, n being the first count at which m is reached, all
\* processes are finished, deadlocked is set, or the last step made no
\* progress with work remaining; and deadlocked is set only by a step that
\* left every process BLOCKED or FINISHED.
RunContract(e, m, e2) ==
    LET n == e2.time - e.time
        tr == StepTrace(e, IF n > 0 THEN n ELSE 0)
        Stops(k) == \/ k = m
                    \/ all_finished(tr[k + 1].eng)
                    \/ tr[k + 1].eng.deadlocked
                    \/ /\ k >= 1
                       /\ ~tr[k + 1].progressed
                       /\ ~all_finished(tr[k + 1].eng)
    IN /\ n \in 0..m
       /\ e2 = tr[n + 1].eng
       /\ Stops(n)
       /\ \A k \in 0..(n - 1) : ~Stops(k)
       /\ (e2.deadlocked /\ ~e.deadlocked) =>
             /\ AllBlockedOrFinished(e2) /\ ~all_finished(e2)
             /\ DeadlockEvents(e2.events)
                   = <<Event(e2.time - 1, "SYSTEM", "DEADLOCK", "DETECTED", <<>>)>>

\* C14: run(max_steps) calls step at most max_steps times and stops as soon
\* as all processes are finished, deadlocked is true, or a step made no
\* progress while work remains; leaving on a stall does not set deadlocked,
\* which only a step with no progress and every process BLOCKED or FINISHED
\* sets.  (A transition with ret' = None and resets unchanged is a call
\* run(m) for each m with Cur' = RunOf(Cur, m).)
C14_RunStopsAtBoundTerminalOrStall ==
    [][(ret' = None /\ resets' = resets) =>
          \A m \in MaxStepsArgs :
              RunContract(Cur, m, Cur') \/ Cur' # RunOf(Cur, m)]_vars

\* C14 witness: run has returned on a stall: the last tick's operation
\* BLOCKED, work remains, another process is READY and deadlocked is not set.
C14_Witness ==
    /\ ret = None /\ time >= 2 /\ ~deadlocked /\ ~all_finished(Cur)
    /\ Len(events) > 0
    /\ events[Len(events)].result = "BLOCKED"
    /\ events[Len(events)].time = time - 1
    /\ \E i \in ProcIndices :
          processes[i].state = "READY" /\ ~has_finished(processes[i])

\* process i has been forced FINISHED by an operation on a missing IPC object
Killed(i) ==
    \E k \in 1..Len(events) :
        /\ events[k].pid = processes[i].pid
        /\ events[k].result = "ERROR_NO_SUCH_IPC"

\* process i is READY with operations left
Runnable(i) == processes[i].state = "READY" /\ ~has_finished(processes[i])

\* C15: an operation other than NOP whose target is not an IPC id logs
\* ERROR_NO_SUCH_IPC, sets the process FINISHED and advances its pc by one; a
\* process so finished is never changed by step or run again and logs nothing
\* more, even with operations left; and while another process is READY with
\* operations left, a step still executes one operation of such a process.
C15_MissingTargetIsFatalToOneProcess ==
    [][/\ \A i \in ProcIndices :
             (/\ StepCalled /\ Scheduled(Cur) = i
              /\ CurOp(Cur, i).op_type # "NOP"
              /\ CurOp(Cur, i).target \notin IpcIds(Cur)) =>
                 /\ NewEvents = <<Event(time, processes[i].pid,
                                        CurOp(Cur, i).op_type,
                                        "ERROR_NO_SUCH_IPC",
                                        [target |-> CurOp(Cur, i).target])>>
                 /\ processes'[i].state = "FINISHED"
                 /\ processes'[i].pc = processes[i].pc + 1
                 /\ ret' = "True"
                 /\ ipcs' = ipcs
       /\ \A i \in ProcIndices :
             (Killed(i) /\ resets' = resets) =>
                 /\ processes'[i] = processes[i]
                 /\ \A k \in 1..Len(NewEvents) :
                       NewEvents[k].pid # processes[i].pid
       /\ (/\ StepCalled
           /\ \E i \in ProcIndices : Killed(i)
           /\ \E j \in ProcIndices : Runnable(j)) =>
              /\ ~deadlocked
              /\ Len(ProcessEvents(NewEvents)) = 1
              /\ \E j \in ProcIndices :
                    /\ Runnable(j) /\ ~Killed(j)
                    /\ ProcessEvents(NewEvents)[1].pid = processes[j].pid]_vars

\* C15 witness: a process was forced FINISHED with operations left, and every
\* other process has since run to the end of its own operations.
C15_Witness ==
    \E i \in ProcIndices :
        /\ Killed(i)
        /\ processes[i].state = "FINISHED"
        /\ ~has_finished(processes[i])
        /\ \A j \in ProcIndices \ {i} :
              /\ has_finished(processes[j])
              /\ Len(processes[j].operations) > 0
              /\ \E k \in 2..Len(events) :
                    /\ events[k].pid = processes[j].pid
                    /\ events[k - 1].pid = processes[i].pid
                    /\ events[k - 1].result = "ERROR_NO_SUCH_IPC"

\* the IPC variant an operation type is meant for
VariantFor(op_type) ==
    CASE op_type \in {"WRITE_PIPE", "READ_PIPE"} -> "PIPE"
      [] op_type \in {"SEND_MSG", "RECV_MSG"} -> "MSG_QUEUE"
      [] op_type \in {"LOCK", "UNLOCK", "READ_SHM", "WRITE_SHM"} -> "SHARED_MEMORY"
      [] OTHER -> None

\* process i is at an operation on an existing IPC object of another variant
\* than its type is meant for
AtMismatchedOp(e, i) ==
    /\ ~has_finished(e.processes[i])
    /\ CurOp(e, i).op_type # "NOP"
    /\ CurOp(e, i).target \in IpcIds(e)
    /\ TargetOf(e, i).ipc_type # VariantFor(CurOp(e, i).op_type)

\* the step skipped the operation of process i with the given error result
SkippedWith(i, result) ==
    /\ Len(NewEvents) = 1
    /\ NewEvents[1].pid = processes[i].pid
    /\ NewEvents[1].action = CurOp(Cur, i).op_type
    /\ NewEvents[1].result = result
    /\ processes'[i].state = "READY"
    /\ processes'[i].pc = processes[i].pc + 1
    /\ ret' = "True"
    /\ ipcs' = ipcs

\* C16: UNLOCK by a process that is not the lock_holder logs ERROR_NOT_HOLDER,
\* and an operation whose type does not match the variant of its target logs
\* ERROR_BAD_IPC_TYPE; in both cases the process ends READY with pc advanced
\* by one, step returns True, and no IPC object changes.
C16_NonFatalErrorsSkipTheOperation ==
    [][\A i \in ProcIndices :
          /\ (/\ StepCalled /\ Scheduled(Cur) = i
              /\ AtOpOn(Cur, i, {"UNLOCK"}, "SHARED_MEMORY")
              /\ TargetOf(Cur, i).lock_holder # processes[i].pid) =>
                 SkippedWith(i, "ERROR_NOT_HOLDER")
          /\ (/\ StepCalled /\ Scheduled(Cur) = i
              /\ AtMismatchedOp(Cur, i)) =>
                 SkippedWith(i, "ERROR_BAD_IPC_TYPE")]_vars

\* C16 witness: the last step refused a SEND_MSG on a Pipe that holds an
\* item, by a process whose UNLOCK was refused earlier while another process
\* held the lock; the process is READY and the item is still the only one.
C16_Witness ==
    /\ Len(events) > 0
    /\ events[Len(events)].action = "SEND_MSG"
    /\ events[Len(events)].result = "ERROR_BAD_IPC_TYPE"
    /\ processes[ProcIdx(Cur, events[Len(events)].pid)].state = "READY"
    /\ ipcs[IpcIdx(Cur, events[Len(events)].details.target)].buffer = <<"a">>
    /\ \E k \in 1..Len(events) :
          /\ events[k].pid = events[Len(events)].pid
          /\ events[k].action = "UNLOCK"
          /\ events[k].result = "ERROR_NOT_HOLDER"
          /\ events[k].details.holder # None

\* the step logged exactly one event, LOCK with the given result, for process i
LoggedLock(i, result) ==
    /\ Len(ProcessEvents(NewEvents)) = 1
    /\ ProcessEvents(NewEvents)[1].pid = processes[i].pid
    /\ ProcessEvents(NewEvents)[1].action = "LOCK"
    /\ ProcessEvents(NewEvents)[1].result = result

\* C17: LOCK on a SharedMemory has exactly three outcomes.  Lock free: the
\* caller becomes lock_holder, OK, pc + 1.  Held by another pid: the caller
\* is appended to the tail of wait_queue, BLOCKED is logged, the process is
\* BLOCKED with pc unchanged and the step reports no progress.  Held by the
\* caller: OK_ALREADY_HELD, pc + 1, lock_holder and wait_queue unchanged.
C17_LockHasThreeOutcomes ==
    [][\A i \in ProcIndices :
          (/\ StepCalled /\ Scheduled(Cur) = i
           /\ AtOpOn(Cur, i, {"LOCK"}, "SHARED_MEMORY")) =>
              LET j == IpcIdx(Cur, CurOp(Cur, i).target)
                  pid == processes[i].pid
              IN CASE ipcs[j].lock_holder = None ->
                        /\ LoggedLock(i, "OK")
                        /\ ipcs'[j].lock_holder = pid
                        /\ ipcs'[j].wait_queue = ipcs[j].wait_queue
                        /\ processes'[i].state = "READY"
                        /\ processes'[i].pc = processes[i].pc + 1
                        /\ ret' = "True"
                   [] ipcs[j].lock_holder \notin {None, pid} ->
                        /\ LoggedLock(i, "BLOCKED")
                        /\ ipcs'[j].lock_holder = ipcs[j].lock_holder
                        /\ ipcs'[j].wait_queue = Append(ipcs[j].wait_queue, pid)
                        /\ processes'[i].state = "BLOCKED"
                        /\ processes'[i].pc = processes[i].pc
                        /\ ret' = "False"
                   [] ipcs[j].lock_holder = pid ->
                        /\ LoggedLock(i, "OK_ALREADY_HELD")
                        /\ ipcs'[j].lock_holder = pid
                        /\ ipcs'[j].wait_queue = ipcs[j].wait_queue
                        /\ processes'[i].state = "READY"
                        /\ processes'[i].pc = processes[i].pc + 1
                        /\ ret' = "True"]_vars

\* C17 witness: a process that BLOCKED on a LOCK, then received the lock by
\* hand-off, has just re-executed that LOCK with OK_ALREADY_HELD and still
\* holds the lock.
C17_Witness ==
    /\ ret = "True" /\ Len(events) > 0
    /\ events[Len(events)].action = "LOCK"
    /\ events[Len(events)].result = "OK_ALREADY_HELD"
    /\ ipcs[IpcIdx(Cur, events[Len(events)].details.target)].lock_holder
          = events[Len(events)].pid
    /\ \E k \in 1..Len(events) : \E n \in 1..Len(events) :
          /\ k < n
          /\ events[k].pid = events[Len(events)].pid
          /\ events[k].action = "LOCK" /\ events[k].result = "BLOCKED"
          /\ events[k].details.target = events[Len(events)].details.target
          /\ events[n].pid # events[Len(events)].pid
          /\ events[n].action = "UNLOCK" /\ events[n].result = "OK"
          /\ events[n].details.target = events[Len(events)].details.target

\* no element occurs twice in seq
NoDuplicates(seq) ==
    \A a \in 1..Len(seq) : \A b \in 1..Len(seq) : seq[a] = seq[b] => a = b

\* C18: in every state reachable by step, run and reset calls, no pid appears
\* twice in the wait_queue of a SharedMemory, and each lock_holder is None or
\* the pid of a process of the engine.
C18_WaitQueueHasNoDuplicates ==
    \A j \in IpcIndices :
        isSharedMemory(ipcs[j]) =>
            /\ NoDuplicates(ipcs[j].wait_queue)
            /\ ipcs[j].lock_holder \in Pids(Cur) \cup {None}

\* the transition is a call of reset()
ResetCalled == resets' = resets + 1

\* C19: reset() returns the engine to tick zero: afterwards time is 0, the
\* event log is empty, deadlocked is false, the round-robin cursor is 0, every
\* state history is empty, the block counters and block occurrences are
\* cleared, and every process has pc 0, state READY and no wait_reason (its
\* pid, name and operations are as before).
C19_ResetReturnsToTickZero ==
    [][ResetCalled =>
          /\ time' = 0
          /\ events' = <<>>
          /\ deadlocked' = FALSE
          /\ sched_index' = 0
          /\ DOMAIN state_history' = Pids(Cur)
          /\ \A pid \in Pids(Cur) : state_history'[pid] = <<>>
          /\ DOMAIN block_counts_by_ipc' = {}
          /\ block_events' = <<>>
          /\ Len(processes') = Len(processes)
          /\ \A i \in ProcIndices :
                processes'[i] = Process(processes[i].pid, processes[i].name,
                                        processes[i].operations)]_vars

\* C19 witness: the engine has been reset after a process queued for a lock
\* (the queue is still there): tick zero, empty log and histories, all
\* processes READY at pc 0.
C19_Witness ==
    /\ resets = 1 /\ time = 0 /\ events = <<>> /\ ~deadlocked
    /\ sched_index = 0 /\ block_events = <<>>
    /\ \A i \in ProcIndices :
          /\ processes[i].pc = 0 /\ processes[i].state = "READY"
          /\ state_history[processes[i].pid] = <<>>
    /\ \E j \in IpcIndices :
          isSharedMemory(ipcs[j]) /\ Len(ipcs[j].wait_queue) > 0

\* an IPC object as its constructor leaves it (every scenario builds its
\* SharedMemory objects with initial data 0)
AsConstructedIpc(ipc) ==
    CASE isPipe(ipc) -> Pipe(ipc.id, ipc.capacity)
      [] isMessageQueue(ipc) -> MessageQueue(ipc.id, ipc.capacity)
      [] isSharedMemory(ipc) -> SharedMemory(ipc.id, 0)

\* a newly constructed engine over the scenario the current engine was built from
FreshEngine ==
    NewEngine([i \in ProcIndices |->
                  Process(processes[i].pid, processes[i].name,
                          processes[i].operations)],
              [j \in IpcIndices |-> AsConstructedIpc(ipcs[j])])

\* that engine after as many ticks as the current one has made
FreshEngineNow == StepTrace(FreshEngine, time)[time + 1].eng

\* C20: reset is equivalent to fresh construction: whatever was done before
\* reset(), the events and the per-tick state snapshots that stepping the
\* reset engine produces are those that stepping a newly constructed engine
\* over the original scenario produces, for every number of ticks.
C20_ResetEquivalentToFreshConstruction ==
    resets >= 1 =>
        /\ events = FreshEngineNow.events
        /\ state_history = FreshEngineNow.state_history

\* ------------------------------------------------------------- scenario_io
\* d.get(key, default) on a dict modelled as a record
DictGet(d, key, default) == IF key \in DOMAIN d THEN d[key] ELSE default

\* the members of OpType, by name; OpType[name] raises KeyError otherwise
OpTypeNames ==
    {"WRITE_PIPE", "READ_PIPE", "SEND_MSG", "RECV_MSG",
     "LOCK", "UNLOCK", "READ_SHM", "WRITE_SHM", "NOP"}

OpTypeByName(name) == CHOOSE member \in OpTypeNames : member = name

_op_to_dict(op) ==
    [op_type |-> op.op_type, target |-> op.target, data |-> op.data]

_op_from_dict(d) ==
    Operation(OpTypeByName(d.op_type), DictGet(d, "target", None),
              DictGet(d, "data", None))

_process_to_dict(p) ==
    [pid |-> p.pid, name |-> p.name,
     operations |-> [k \in 1..Len(p.operations) |-> _op_to_dict(p.operations[k])]]

_process_from_dict(d) ==
    LET ops == DictGet(d, "operations", <<>>)
    IN Process(d.pid, DictGet(d, "name", d.pid),
               [k \in 1..Len(ops) |-> _op_from_dict(ops[k])])

\* _ipc_to_dict leaving the capacity out of the dict
_ipc_to_dict_NoCapacity(ipc) ==
    IF isSharedMemory(ipc)
    THEN [id |-> ipc.id, type |-> ipc.ipc_type, initial_data |-> ipc.data]
    ELSE [id |-> ipc.id, type |-> ipc.ipc_type]

_ipc_to_dict(ipc) ==
    CASE isPipe(ipc) ->
            [id |-> ipc.id, type |-> ipc.ipc_type, capacity |-> ipc.capacity]
      [] isMessageQueue(ipc) ->
            [id |-> ipc.id, type |-> ipc.ipc_type, capacity |-> ipc.capacity]
      [] isSharedMemory(ipc) ->
            [id |-> ipc.id, type |-> ipc.ipc_type, initial_data |-> ipc.data]
      [] OTHER -> [id |-> ipc.id, type |-> ipc.ipc_type]

\* capacity a Pipe or MessageQueue gets when the dict names none
DefaultCapacity == 10

_ipc_from_dict(d) ==
    CASE d.type = "PIPE" -> Pipe(d.id, DictGet(d, "capacity", DefaultCapacity))
      [] d.type = "MSG_QUEUE" ->
            MessageQueue(d.id, DictGet(d, "capacity", DefaultCapacity))
      [] d.type = "SHARED_MEMORY" ->
            SharedMemory(d.id, DictGet(d, "initial_data", None))

scenario_to_dict(procs, ipcList) ==
    [processes |-> [i \in 1..Len(procs) |-> _process_to_dict(procs[i])],
     ipcs |-> [j \in 1..Len(ipcList) |-> _ipc_to_dict(ipcList[j])]]

\* dict[key] = item on a dict modelled as the sequence of its values in
\* insertion order: an existing key keeps its place and takes the new value
RECURSIVE DictPut(_, _, _, _)
DictPut(values, keyOf, item, k) ==
    IF k > Len(values)
    THEN Append(values, item)
    ELSE IF values[k][keyOf] = item[keyOf]
    THEN [values EXCEPT ![k] = item]
    ELSE DictPut(values, keyOf, item, k + 1)

\* the loops of scenario_from_dict: items k.. of list put into the dict
RECURSIVE DictFromList(_, _, _, _)
DictFromList(values, keyOf, list, k) ==
    IF k > Len(list)
    THEN values
    ELSE DictFromList(DictPut(values, keyOf, list[k], 1), keyOf, list, k + 1)

scenario_from_dict(d) ==
    LET proc_list == DictGet(d, "processes", <<>>)
        ipc_list == DictGet(d, "ipcs", <<>>)
    IN Scenario(
          DictFromList(<<>>, "pid",
                       [i \in 1..Len(proc_list) |->
                           _process_from_dict(proc_list[i])], 1),
          DictFromList(<<>>, "id",
                       [j \in 1..Len(ipc_list) |-> _ipc_from_dict(ipc_list[j])],
                       1))

\* the process/IPC set the current engine was constructed from, saved and
\* loaded again
RoundTripped ==
    scenario_from_dict(scenario_to_dict(FreshEngine.processes, FreshEngine.ipcs))

\* a new engine over that set, after as many ticks as the current one has made
RoundTrippedEngineNow ==
    StepTrace(NewEngine(RoundTripped.processes, RoundTripped.ipcs),
              time)[time + 1].eng

\* C21: round-trip fidelity: from scenario_from_dict(scenario_to_dict(...)) of
\* a process/IPC set in its initial state a new engine produces, for every
\* number of ticks, the events the engine built from the original set
\* produces (and is finished or deadlocked at the same tick, so no further
\* tick differs either); the set has the same pids in the same order,
\* operations, targets, payloads, IPC ids, variants, capacities and initial
\* data.
C21_RoundTripPreservesBehaviour ==
    /\ RoundTripped = Scenario(FreshEngine.processes, FreshEngine.ipcs)
    /\ events = RoundTrippedEngineNow.events
    /\ deadlocked = RoundTrippedEngineNow.deadlocked
    /\ all_finished(Cur) = all_finished(RoundTrippedEngineNow)

\* C21 witness: an engine with a Pipe of capacity 1 that has blocked a writer
\* on the full pipe, passed a payload from writer to reader, and written a
\* payload to a SharedMemory.
C21_Witness ==
    /\ \E j \in IpcIndices : isPipe(ipcs[j]) /\ ipcs[j].capacity = 1
    /\ {<<"WRITE_PIPE", "BLOCKED">>, <<"READ_PIPE", "OK">>,
        <<"WRITE_SHM", "UNSAFE">>} \subseteq Outcomes
    /\ \E k \in 1..Len(events) :
          events[k].action = "READ_PIPE" /\ events[k].result = "OK"
          /\ events[k].details.data = "a"
    /\ \E j \in IpcIndices : isSharedMemory(ipcs[j]) /\ ipcs[j].data = 7

\* the states recorded in the state histories
SnapshotStates ==
    UNION {Range(state_history[pid]) : pid \in DOMAIN state_history}

\* C22: RUNNING is never observable: in no state between calls is a process
\* RUNNING, and no snapshot in any state history is RUNNING.
C22_RunningIsNeverObserved ==
    /\ \A i \in ProcIndices : processes[i].state # "RUNNING"
    /\ "RUNNING" \notin SnapshotStates

\* C22 witness: operations have executed (each one set RUNNING first), and the
\* histories hold the three other states.
C22_Witness ==
    /\ Len(ProcessEvents(events)) >= 3
    /\ SnapshotStates = {"READY", "BLOCKED", "FINISHED"}

\* C23: FINISHED is the terminal state of a process whose operations are
\* exhausted: once stepping has brought every process to pc =
\* len(operations) and step returns False, every process's state is FINISHED and so is the last snapshot in its
\* state history.
C23_CompletedProcessesAreFinished ==
    (time > 0 /\ all_finished(Cur) /\ ret = "False") =>
        \A i \in ProcIndices :
            /\ processes[i].state = "FINISHED"
            /\ state_history[processes[i].pid][time] = "FINISHED"

\* 0 <= pc <= len(operations) for every process of the sequence
PcInRange(procs) ==
    \A i \in 1..Len(procs) :
        procs[i].pc >= 0 /\ procs[i].pc <= Len(procs[i].operations)

\* C24: every process has 0 <= pc <= len(operations) in every reachable
\* state; step and run never decrease a pc (only reset sets it back to 0);
\* and a step executes an operation of a process only at a pc below
\* len(operations), the operation at that index.
C24_PcStaysInRange ==
    [][/\ PcInRange(processes) /\ PcInRange(processes')
       /\ resets' = resets =>
             \A i \in ProcIndices : processes'[i].pc >= processes[i].pc
       /\ ResetCalled => \A i \in ProcIndices : processes'[i].pc = 0
       /\ StepCalled =>
             \A k \in 1..Len(ProcessEvents(NewEvents)) :
                LET i == ProcIdx(Cur, ProcessEvents(NewEvents)[k].pid)
                IN /\ processes[i].pc < Len(processes[i].operations)
                   /\ ProcessEvents(NewEvents)[k].action
                         = processes[i].operations[processes[i].pc + 1].op_type]_vars

\* C24 witness: one process has executed its last operation (pc at the end),
\* another is BLOCKED in the middle of its operations.
C24_Witness ==
    /\ \E i \in ProcIndices :
          /\ Len(processes[i].operations) > 0
          /\ processes[i].pc = Len(processes[i].operations)
    /\ \E i \in ProcIndices :
          /\ processes[i].state = "BLOCKED"
          /\ processes[i].pc > 0
          /\ processes[i].pc < Len(processes[i].operations)

\* the edges <<waiting pid, holder>> of a wait-for graph
Edges(wf) ==
    UNION {{<<u, wf.adj[u][k]>> : k \in 1..Len(wf.adj[u])} : u \in DOMAIN wf.adj}

\* the nodes reachable from the set S by one or more edges, given those
\* already known to be (n bounds the rounds still needed)
RECURSIVE ReachableFrom(_, _, _)
ReachableFrom(edges, known, n) ==
    LET more == known \cup {ed[2] : ed \in {x \in edges : x[1] \in known}}
    IN IF n = 0 \/ more = known THEN known ELSE ReachableFrom(edges, more, n - 1)

\* the graph has a directed cycle: some node reaches itself
HasCycle(wf) ==
    \E ed \in Edges(wf) :
        ed[1] \in ReachableFrom(Edges(wf), {ed[2]}, Cardinality(Edges(wf)))

\* C25: in every reachable engine state, detect_deadlock's is_deadlocked is
\* the logical OR of (the shared-memory wait-for graph has a directed cycle)
\* and (the engine's deadlocked flag).
C25_IsDeadlockedIsCycleOrFlag ==
    detect_deadlock(Cur).is_deadlocked
        = (HasCycle(WaitForGraph(Cur)) \/ deadlocked)

\* C25 witness: the engine's flag is set by processes stuck on a pipe or
\* queue while the wait-for graph, not empty, has no cycle: is_deadlocked
\* comes from the flag alone.
C25_Witness ==
    /\ deadlocked
    /\ ~HasCycle(WaitForGraph(Cur))
    /\ Edges(WaitForGraph(Cur)) # {}
    /\ detect_deadlock(Cur).is_deadlocked
    /\ detect_deadlock(Cur).pids = <<>>

\* the places <<j, k>> where pid u waits in the wait_queue of a SharedMemory
\* held by pid h
WaitsOn(u, h) ==
    {jk \in UNION {{<<j, k>> : k \in 1..Len(ipcs[j].wait_queue)} :
                      j \in {n \in IpcIndices : isSharedMemory(ipcs[n])}} :
        /\ ipcs[jk[1]].lock_holder = h
        /\ ipcs[jk[1]].wait_queue[jk[2]] = u}

\* number of occurrences of x in seq
CountIn(seq, x) == Cardinality({k \in 1..Len(seq) : seq[k] = x})

\* the lists of distinct pids other than u (what a key of the graph maps to)
HolderLists(u) ==
    LET others == Range(PidNames) \ {u}
    IN {<<>>} \cup {<<a>> : a \in others}
              \cup {<<ab[1], ab[2]>> : ab \in {x \in others \X others : x[1] # x[2]}}

\* every wait-for graph over the pids of PidNames: a set of keys in some
\* insertion order, each with a non-empty list of holders
WaitForGraphs ==
    UNION {
        {[keys |-> order, adj |-> adj] :
            order \in {o \in [1..Cardinality(K) -> K] : NoDuplicates(o)},
            adj \in {f \in [K -> UNION {HolderLists(u) : u \in K}] :
                        \A u \in K : f[u] # <<>> /\ f[u] \in HolderLists(u)}} :
        K \in SUBSET Range(PidNames)}

\* C26: the wait-for graph of detect_deadlock has exactly one edge
\* waiting_pid -> lock_holder for every pid in the wait_queue of a
\* SharedMemory that differs from the holder, and no other edge (Pipes and
\* MessageQueues contribute none); and pids is non-empty if and only if that
\* graph has a directed cycle, also for every graph over the pids of
\* PidNames (which does not depend on the state and is evaluated in the
\* states of a newly constructed engine).
C26_WaitForGraphAndCycle ==
    LET r == detect_deadlock(Cur)
        wf == r.wait_for_graph
    IN /\ \A u \in Pids(Cur) : \A h \in Pids(Cur) :
             (IF u \in DOMAIN wf.adj THEN CountIn(wf.adj[u], h) ELSE 0)
                = (IF u = h THEN 0 ELSE Cardinality(WaitsOn(u, h)))
       /\ \A ed \in Edges(wf) : ed[1] \in Pids(Cur) /\ ed[2] \in Pids(Cur)
       /\ Range(wf.keys) = DOMAIN wf.adj
       /\ NoDuplicates(wf.keys)
       /\ \A u \in DOMAIN wf.adj : wf.adj[u] # <<>>
       /\ (r.pids # <<>>) = HasCycle(wf)
       /\ (time = 0 /\ resets = 0) =>
             \A g \in WaitForGraphs :
                 (DeadlockedPids(g, 1, {}, {}) # <<>>) = HasCycle(g)

\* C26 witness: two processes wait on each other's SharedMemory and a third
\* is BLOCKED on a Pipe or MessageQueue: the graph has the two lock edges
\* only, and pids is not empty.
C26_Witness ==
    /\ Cardinality(Edges(WaitForGraph(Cur))) = 2
    /\ HasCycle(WaitForGraph(Cur))
    /\ detect_deadlock(Cur).pids # <<>>
    /\ \E i \in ProcIndices :
          /\ processes[i].state = "BLOCKED"
          /\ processes[i].pid \notin DOMAIN WaitForGraph(Cur).adj
          /\ \E j \in IpcIndices :
                /\ ~isSharedMemory(ipcs[j])
                /\ \E k \in 1..Len(block_events) :
                      block_events[k][2] = processes[i].pid
                      /\ block_events[k][3] = ipcs[j].id

\* the pids with an edge to themselves through one or more edges of wf
OnCycle(wf) ==
    {n \in Range(wf.keys) :
        \E ed \in Edges(wf) :
            /\ ed[1] = n
            /\ n \in ReachableFrom(Edges(wf), {ed[2]}, Cardinality(Edges(wf)))}

\* C27: when the wait-for graph has a cycle, pids of detect_deadlock is the
\* list of all keys of the graph, that is of every pid waiting on a lock some
\* other pid holds, whether or not it is on a cycle, and holds no pid that
\* waits on nothing; without a cycle pids is empty. The same holds for every
\* graph over the pids of PidNames (evaluated in the states of a newly
\* constructed engine).
C27_PidsAreAllGraphKeys ==
    LET r == detect_deadlock(Cur)
        wf == r.wait_for_graph
    IN /\ r.pids = (IF HasCycle(wf) THEN wf.keys ELSE <<>>)
       /\ Range(wf.keys) =
             {u \in Pids(Cur) : \E h \in Pids(Cur) : h # u /\ WaitsOn(u, h) # {}}
       /\ (time = 0 /\ resets = 0) =>
             \A g \in WaitForGraphs :
                 DeadlockedPids(g, 1, {}, {})
                    = (IF HasCycle(g) THEN g.keys ELSE <<>>)

\* C27 witness: a graph with a cycle and a key that is on no cycle (it waits
\* on a lock held by a pid of the cycle) and is reported among pids.
C27_Witness ==
    LET r == detect_deadlock(Cur)
        wf == r.wait_for_graph
    IN /\ HasCycle(wf)
       /\ \E u \in Range(wf.keys) : u \notin OnCycle(wf) /\ u \in Range(r.pids)

\* no pid waits in the wait_queue of a SharedMemory
NoLockWaiters ==
    \A j \in IpcIndices : isSharedMemory(ipcs[j]) => ipcs[j].wait_queue = <<>>

\* every block recorded so far is on a Pipe or a MessageQueue
BlockedOnChannelsOnly ==
    \A k \in 1..Len(block_events) :
        \E j \in IpcIndices :
            ipcs[j].id = block_events[k][3] /\ ~isSharedMemory(ipcs[j])

\* C28: the engine's deadlocked flag and the cycle search of detect_deadlock
\* are independent signals. While no pid waits on a SharedMemory lock,
\* detect_deadlock reports an empty wait_for_graph and empty pids and its
\* is_deadlocked is the engine's flag alone; a step that returns False with
\* operations remaining and every process BLOCKED or FINISHED has the flag
\* set, whatever the processes are blocked on; and the flag is never set while a process is READY with
\* operations left, whether or not the wait-for graph has a cycle.
C28_DeadlockSignalsAreIndependent ==
    LET r == detect_deadlock(Cur)
    IN /\ NoLockWaiters =>
             /\ r.wait_for_graph = EmptyWaitFor
             /\ r.pids = <<>>
             /\ r.is_deadlocked = deadlocked
       /\ (ret = "False" /\ ~all_finished(Cur) /\ AllBlockedOrFinished(Cur))
             => deadlocked
       /\ (\E i \in ProcIndices : Runnable(i)) => ~deadlocked

\* C28 witness: without any reset, every process left is BLOCKED on a Pipe
\* or MessageQueue, the step has set the flag, and detect_deadlock reports an
\* empty graph and no pids.
C28_Witness ==
    /\ resets = 0 /\ deadlocked /\ ret = "False"
    /\ block_events # <<>> /\ BlockedOnChannelsOnly /\ NoLockWaiters
    /\ \E i \in ProcIndices : processes[i].state = "BLOCKED"
    /\ detect_deadlock(Cur).wait_for_graph = EmptyWaitFor
    /\ detect_deadlock(Cur).pids = <<>>
    /\ detect_deadlock(Cur).is_deadlocked

\* the converse case: without any reset, the wait-for graph has a cycle and
\* detect_deadlock reports pids while the flag is still false, a third
\* process being READY with operations left
LockCycleWhileRunnable ==
    /\ resets = 0 /\ ~deadlocked
    /\ HasCycle(WaitForGraph(Cur))
    /\ detect_deadlock(Cur).pids # <<>>
    /\ \E i \in ProcIndices : Runnable(i)

\* the largest block counter over all IPC objects of the engine (0 for an
\* object that never blocked a process)
MaxBlockCount ==
    CHOOSE c \in {BlockCount(Cur, ipcs[j].id) : j \in IpcIndices} :
        \A j \in IpcIndices : BlockCount(Cur, ipcs[j].id) <= c

\* C29: detect_bottlenecks returns one entry, with its count, for exactly the
\* IPC objects whose block counter equals the largest block counter over all
\* IPC objects, ties included, and the empty list when that largest counter
\* is zero.
C29_BottlenecksAreTheMaxima ==
    LET r == detect_bottlenecks(Cur)
    IN /\ Range(r) =
             {[ipc_id |-> ipcs[j].id, block_count |-> BlockCount(Cur, ipcs[j].id)] :
                 j \in {n \in IpcIndices :
                           /\ BlockCount(Cur, ipcs[n].id) = MaxBlockCount
                           /\ MaxBlockCount > 0}}
       /\ NoDuplicates(r)
       /\ (MaxBlockCount = 0) => r = <<>>
       /\ Range(BlockCountKeys(Cur)) = DOMAIN block_counts_by_ipc

\* C29 witness: two IPC objects tie at the largest counter and another has
\* never blocked a process: the result holds the two, each with that count.
C29_Witness ==
    /\ Len(detect_bottlenecks(Cur)) = 2
    /\ detect_bottlenecks(Cur)[1].block_count = MaxBlockCount
    /\ detect_bottlenecks(Cur)[2].block_count = MaxBlockCount
    /\ detect_bottlenecks(Cur)[1].ipc_id # detect_bottlenecks(Cur)[2].ipc_id
    /\ \E j \in IpcIndices : BlockCount(Cur, ipcs[j].id) = 0

\* ------------------------------------------- unsafe shared memory accesses
\* the test detect_unsafe_shared_memory_accesses makes on an event
IsUnsafeShmEvent(ev) ==
    ev.action \in {"READ_SHM", "WRITE_SHM"} /\ ev.result = "UNSAFE"

\* the entry it appends for an event
UnsafeIssue(ev) ==
    [time |-> ev.time, pid |-> ev.pid, action |-> ev.action,
     target |-> DictGet(ev.details, "target", None)]

\* detect_unsafe_shared_memory_accesses that looks at WRITE_SHM only
detect_unsafe_shared_memory_accesses_WritesOnly(e) ==
    LET unsafe == SelectSeq(e.events,
                            LAMBDA ev : ev.action = "WRITE_SHM"
                                        /\ ev.result = "UNSAFE")
    IN [k \in 1..Len(unsafe) |-> UnsafeIssue(unsafe[k])]

\* AnalysisEngine.detect_unsafe_shared_memory_accesses
detect_unsafe_shared_memory_accesses(e) ==
    LET unsafe == SelectSeq(e.events, LAMBDA ev : IsUnsafeShmEvent(ev))
    IN [k \in 1..Len(unsafe) |-> UnsafeIssue(unsafe[k])]

\* the positions of the log that hold a READ_SHM or WRITE_SHM with result
\* UNSAFE, up to position k
UnsafePositions(evs, k) ==
    {n \in 1..k : /\ evs[n].action \in {"READ_SHM", "WRITE_SHM"}
                  /\ evs[n].result = "UNSAFE"}

\* C30: detect_unsafe_shared_memory_accesses returns, in the order of the
\* event log, one entry (time, pid, action, target IPC id) for exactly the
\* events whose action is READ_SHM or WRITE_SHM and whose result is UNSAFE;
\* and its length counts the shared-memory accesses executed by a non-holder
\* in the run: a step that executes a READ_SHM or WRITE_SHM on a SharedMemory
\* whose lock_holder is not the caller adds one entry, for that access, every
\* other step adds none, a run only adds entries, and reset leaves none.
C30_UnsafeAccessesAreTheUnsafeEvents ==
    [][LET before == detect_unsafe_shared_memory_accesses(Cur)
           after == detect_unsafe_shared_memory_accesses(Cur')
       IN /\ Len(after) = Cardinality(UnsafePositions(events', Len(events')))
          /\ \A n \in UnsafePositions(events', Len(events')) :
                after[Cardinality(UnsafePositions(events', n))]
                   = [time |-> events'[n].time, pid |-> events'[n].pid,
                      action |-> events'[n].action,
                      target |-> events'[n].details.target]
          /\ \A k \in 1..Len(after) : after[k].target \in IpcIds(Cur)
          /\ StepCalled =>
                LET i == Scheduled(Cur)
                IN IF /\ i # 0
                      /\ AtOpOn(Cur, i, {"READ_SHM", "WRITE_SHM"}, "SHARED_MEMORY")
                      /\ TargetOf(Cur, i).lock_holder # processes[i].pid
                   THEN after = Append(before,
                                       [time |-> time, pid |-> processes[i].pid,
                                        action |-> CurOp(Cur, i).op_type,
                                        target |-> CurOp(Cur, i).target])
                   ELSE after = before
          /\ (~StepCalled /\ ~ResetCalled) =>
                /\ Len(after) >= Len(before)
                /\ SubSeq(after, 1, Len(before)) = before
          /\ ResetCalled => after = <<>>]_vars

\* C30 witness: the log holds a READ_SHM and a WRITE_SHM with result UNSAFE
\* at different ticks, an OK shared-memory access and a BLOCKED event;
\* the result has an entry for each of the UNSAFE ones only.
C30_Witness ==
    LET r == detect_unsafe_shared_memory_accesses(Cur)
    IN /\ Len(r) >= 2
       /\ Len(r) < Len(events)
       /\ \E a \in 1..Len(r) : \E b \in 1..Len(r) :
             /\ a < b
             /\ r[a].action # r[b].action
             /\ r[a].time < r[b].time
       /\ \E k \in 1..Len(events) :
             events[k].action \in {"READ_SHM", "WRITE_SHM"} /\ events[k].result = "OK"
       /\ \E k \in 1..Len(events) : events[k].result = "BLOCKED"

\* ------------------------------------------------------------- risk score
\* sum(block_counts_by_ipc.values())
RECURSIVE SumCounts(_, _)
SumCounts(counts, ids) ==
    IF ids = {}
    THEN 0
    ELSE LET id == CHOOSE x \in ids : TRUE
         IN counts[id] + SumCounts(counts, ids \ {id})

\* AnalysisEngine.compute_features
compute_features(e) ==
    LET deadlock_info == detect_deadlock(e)
    IN [is_deadlocked |-> deadlock_info.is_deadlocked,
        num_deadlocked_pids |-> Len(deadlock_info.pids),
        total_block_events |->
            SumCounts(e.block_counts_by_ipc, DOMAIN e.block_counts_by_ipc),
        max_block_on_single_ipc |->
            IF DOMAIN e.block_counts_by_ipc # {} THEN MaxBlocks(e) ELSE 0,
        num_unsafe_accesses |-> Len(detect_unsafe_shared_memory_accesses(e)),
        num_processes |-> Len(e.processes),
        num_ipcs |-> Len(e.ipcs)]

\* Scores are held exactly, as a number of units of 1/ScoreUnit: every term
\* of the score (0.6, 0.1, n/50, n/30, n/10, 0.05) and both label thresholds
\* (0.3, 0.7) are whole numbers of units. The binary64 sums of the code lie
\* within 2e-16 of these values and on the same side of both thresholds for
\* every combination of terms.
ScoreUnit == 300

Min2(a, b) == IF a <= b THEN a ELSE b
Max2(a, b) == IF a >= b THEN a ELSE b

\* the label of a clamped score
RiskLabel(score) ==
    IF score * 10 < 3 * ScoreUnit THEN "Low"
    ELSE IF score * 10 < 7 * ScoreUnit THEN "Medium"
    ELSE "High"

\* RiskScoreOf with the size bump given from five processes or IPC objects on
RiskScoreOf_BumpAtFive(f) ==
    LET deadlock == IF f.is_deadlocked
                    THEN (6 * ScoreUnit) \div 10
                         + (IF f.num_deadlocked_pids > 1 THEN ScoreUnit \div 10 ELSE 0)
                    ELSE 0
        blocking == IF f.total_block_events > 0
                    THEN Min2((2 * ScoreUnit) \div 10,
                              (f.total_block_events * ScoreUnit) \div 50)
                    ELSE 0
        hottest == IF f.max_block_on_single_ipc > 0
                   THEN Min2(ScoreUnit \div 10,
                             (f.max_block_on_single_ipc * ScoreUnit) \div 30)
                   ELSE 0
        unsafe == IF f.num_unsafe_accesses > 0
                  THEN Min2((2 * ScoreUnit) \div 10,
                            (f.num_unsafe_accesses * ScoreUnit) \div 10)
                  ELSE 0
        size == IF f.num_processes >= 5 \/ f.num_ipcs >= 5
                THEN (5 * ScoreUnit) \div 100
                ELSE 0
        score == Max2(0, Min2(ScoreUnit, deadlock + blocking + hottest + unsafe + size))
    IN [score |-> score, label |-> RiskLabel(score)]

\* RiskScoreOf without the clamp to [0, 1]
RiskScoreOf_NoClamp(f) ==
    LET deadlock == IF f.is_deadlocked
                    THEN (6 * ScoreUnit) \div 10
                         + (IF f.num_deadlocked_pids > 1 THEN ScoreUnit \div 10 ELSE 0)
                    ELSE 0
        blocking == IF f.total_block_events > 0
                    THEN Min2((2 * ScoreUnit) \div 10,
                              (f.total_block_events * ScoreUnit) \div 50)
                    ELSE 0
        hottest == IF f.max_block_on_single_ipc > 0
                   THEN Min2(ScoreUnit \div 10,
                             (f.max_block_on_single_ipc * ScoreUnit) \div 30)
                   ELSE 0
        unsafe == IF f.num_unsafe_accesses > 0
                  THEN Min2((2 * ScoreUnit) \div 10,
                            (f.num_unsafe_accesses * ScoreUnit) \div 10)
                  ELSE 0
        size == IF f.num_processes > 5 \/ f.num_ipcs > 5
                THEN (5 * ScoreUnit) \div 100
                ELSE 0
        score == deadlock + blocking + hottest + unsafe + size
    IN [score |-> score, label |-> RiskLabel(score)]

\* compute_risk_score from the features on: (score, label)
RiskScoreOf(f) ==
    LET deadlock == IF f.is_deadlocked
                    THEN (6 * ScoreUnit) \div 10
                         + (IF f.num_deadlocked_pids > 1 THEN ScoreUnit \div 10 ELSE 0)
                    ELSE 0
        blocking == IF f.total_block_events > 0
                    THEN Min2((2 * ScoreUnit) \div 10,
                              (f.total_block_events * ScoreUnit) \div 50)
                    ELSE 0
        hottest == IF f.max_block_on_single_ipc > 0
                   THEN Min2(ScoreUnit \div 10,
                             (f.max_block_on_single_ipc * ScoreUnit) \div 30)
                   ELSE 0
        unsafe == IF f.num_unsafe_accesses > 0
                  THEN Min2((2 * ScoreUnit) \div 10,
                            (f.num_unsafe_accesses * ScoreUnit) \div 10)
                  ELSE 0
        size == IF f.num_processes > 5 \/ f.num_ipcs > 5
                THEN (5 * ScoreUnit) \div 100
                ELSE 0
        score == Max2(0, Min2(ScoreUnit, deadlock + blocking + hottest + unsafe + size))
    IN [score |-> score, label |-> RiskLabel(score)]

\* AnalysisEngine.compute_risk_score
compute_risk_score(e) == RiskScoreOf(compute_features(e))

\* f"{score:.2f}": the score in hundredths, rounded to nearest (a whole
\* number of units is never half way between two hundredths)
Hundredths(score) == (score * 100 + ScoreUnit \div 2) \div ScoreUnit

\* AnalysisEngine.risk_summary_text: the label and the two-decimal score
risk_summary_text(e) ==
    LET r == compute_risk_score(e)
    IN [label |-> r.label, hundredths |-> Hundredths(r.score)]

\* the feature vectors compute_features can produce for up to six processes
\* and IPC objects: pids are reported only with a deadlock, and the largest
\* counter is positive, and at most the total, exactly when the total is
FeatureVectors ==
    {f \in [is_deadlocked : BOOLEAN,
            num_deadlocked_pids : 0..2,
            total_block_events : 0..MaxFeature,
            max_block_on_single_ipc : 0..MaxFeature,
            num_unsafe_accesses : 0..3,
            num_processes : 4..6,
            num_ipcs : 4..6] :
        /\ f.num_deadlocked_pids > 0 => f.is_deadlocked
        /\ f.max_block_on_single_ipc <= f.total_block_events
        /\ (f.max_block_on_single_ipc > 0) = (f.total_block_events > 0)}

\* the state in which the claims about all feature vectors are evaluated
\* (they do not depend on the state): the deadlock demo as constructed
AtConstructionOfDemo == IsDeadlockScenario /\ time = 0 /\ resets = 0

\* the run had no deadlock, no blocking and no unsafe access
QuietFeatures(f) ==
    /\ ~f.is_deadlocked
    /\ f.total_block_events = 0
    /\ f.max_block_on_single_ipc = 0
    /\ f.num_unsafe_accesses = 0

\* C31: for a run with no deadlock, no blocking events, no unsafe accesses,
\* at most 5 processes and at most 5 IPC objects, compute_risk_score returns
\* score 0 and label Low, and the summary text shows Low (0.00); in every
\* reachable state and for every feature vector of FeatureVectors.
C31_QuietSmallRunScoresZero ==
    /\ (/\ QuietFeatures(compute_features(Cur))
        /\ block_events = <<>>
        /\ Len(processes) <= 5 /\ Len(ipcs) <= 5) =>
           /\ compute_risk_score(Cur) = [score |-> 0, label |-> "Low"]
           /\ risk_summary_text(Cur) = [label |-> "Low", hundredths |-> 0]
    /\ AtConstructionOfDemo =>
          \A f \in FeatureVectors :
              (QuietFeatures(f) /\ f.num_processes <= 5 /\ f.num_ipcs <= 5) =>
                  /\ RiskScoreOf(f) = [score |-> 0, label |-> "Low"]
                  /\ Hundredths(RiskScoreOf(f).score) = 0

\* C31 witness: a scenario has run to the end, every process through all of
\* its operations, with no block, no unsafe access and no deadlock, and the
\* score is 0, Low.
C31_Witness ==
    /\ time >= 4 /\ all_finished(Cur) /\ ~deadlocked
    /\ \E i \in ProcIndices : Len(processes[i].operations) >= 2
    /\ QuietFeatures(compute_features(Cur))
    /\ block_events = <<>>
    /\ compute_risk_score(Cur) = [score |-> 0, label |-> "Low"]

\* the score the formula D + B + M + U + S gives for a feature vector, in
\* units of 1/ScoreUnit and before the cap at 1: D = 0.6 if is_deadlocked
\* plus 0.1 if more than one pid is flagged, B = min(0.2, total/50),
\* M = min(0.1, max/30), U = min(0.2, unsafe/10), S = 0.05 for more than 5
\* processes or IPC objects (ScoreUnit = 300: 0.6 is 180 units, 0.1 is 30,
\* 0.2 is 60, 0.05 is 15, 1/50 is 6, 1/30 is 10, 1/10 is 30)
AdditiveScore(f) ==
    LET D == (IF f.is_deadlocked THEN 180 ELSE 0)
             + (IF f.is_deadlocked /\ f.num_deadlocked_pids > 1 THEN 30 ELSE 0)
        B == Min2(60, 6 * f.total_block_events)
        M == Min2(30, 10 * f.max_block_on_single_ipc)
        U == Min2(60, 30 * f.num_unsafe_accesses)
        S == IF f.num_processes > 5 \/ f.num_ipcs > 5 THEN 15 ELSE 0
    IN D + B + M + U + S

\* what the claim says of the result r for the feature vector f
ScoredAsSpecified(f, r) ==
    /\ r.score = Min2(300, AdditiveScore(f))
    /\ r.score >= 0 /\ r.score <= 300
    /\ r.label = (IF r.score < 90 THEN "Low"
                  ELSE IF r.score < 210 THEN "Medium" ELSE "High")
    /\ f.is_deadlocked => r.label \in {"Medium", "High"}

\* C32: compute_risk_score returns min(1, D + B + M + U + S) with the terms
\* of AdditiveScore; the score lies in [0, 1]; the label is Low below 0.3,
\* Medium below 0.7 and High from there on, so a deadlocked run is Medium or
\* High; in every reachable state and for every feature vector of
\* FeatureVectors.
C32_RiskScoreIsTheCappedSum ==
    /\ ScoreUnit = 300
    /\ ScoredAsSpecified(compute_features(Cur), compute_risk_score(Cur))
    /\ AtConstructionOfDemo =>
          \A f \in FeatureVectors : ScoredAsSpecified(f, RiskScoreOf(f))

\* C32 witness: a deadlocked run with more than one pid flagged, blocks and
\* an unsafe access: every term but the size term is positive and the label
\* is High.
C32_Witness ==
    LET f == compute_features(Cur)
    IN /\ f.is_deadlocked /\ f.num_deadlocked_pids > 1
       /\ f.total_block_events > 1
       /\ f.num_unsafe_accesses > 0
       /\ compute_risk_score(Cur).score = AdditiveScore(f)
       /\ compute_risk_score(Cur).score > 210
       /\ compute_risk_score(Cur).label = "High"

\* ---------------------------------------------------- analysis entry points
\* the messages of summarize_issues as records: the text of a message is
\* fixed by its kind and the values formatted into it
DeadlockMessage(dl) ==
    IF dl.is_deadlocked
    THEN IF dl.pids # <<>>
         THEN <<[kind |-> "Deadlock detected involving processes", pids |-> dl.pids]>>
         ELSE <<[kind |-> "Deadlock detected (no progress and all processes blocked)."]>>
    ELSE <<>>

\* AnalysisEngine.summarize_issues
summarize_issues(e) ==
    LET bns == detect_bottlenecks(e)
        unsafe == detect_unsafe_shared_memory_accesses(e)
    IN DeadlockMessage(detect_deadlock(e))
       \o [k \in 1..Len(bns) |->
              [kind |-> "Bottleneck on IPC", ipc_id |-> bns[k].ipc_id,
               block_count |-> bns[k].block_count]]
       \o [k \in 1..Len(unsafe) |->
              [kind |-> "Unsafe shared memory", action |-> unsafe[k].action,
               pid |-> unsafe[k].pid, target |-> unsafe[k].target,
               time |-> unsafe[k].time]]

AnalysisCalls ==
    {"detect_deadlock", "detect_bottlenecks",
     "detect_unsafe_shared_memory_accesses", "compute_features",
     "compute_risk_score", "summarize_issues"}

\* what a method of the analysis layer returns on the engine e
AnalysisResult(call, e) ==
    CASE call = "detect_deadlock" -> detect_deadlock(e)
      [] call = "detect_bottlenecks" -> detect_bottlenecks(e)
      [] call = "detect_unsafe_shared_memory_accesses" ->
             detect_unsafe_shared_memory_accesses(e)
      [] call = "compute_features" -> compute_features(e)
      [] call = "compute_risk_score" -> compute_risk_score(e)
      [] call = "summarize_issues" -> summarize_issues(e)

\* AnalysisOf where detect_bottlenecks reads the counter of every IPC object
\* by index: block_counts_by_ipc, a defaultdict, gets a key for each
AnalysisOf_TouchesCounters(call, e) ==
    [eng |-> IF call = "detect_bottlenecks"
             THEN [e EXCEPT !.block_counts_by_ipc =
                      [id \in IpcIds(e) \cup DOMAIN e.block_counts_by_ipc |->
                          BlockCount(e, id)]]
             ELSE e,
     result |-> AnalysisResult(call, e)]

\* a call of a method of the analysis layer: the engine it leaves behind
\* (no method assigns to a field of sim or of an object reached through it,
\* and block_counts_by_ipc is read through values() and items() only) and
\* the value returned
AnalysisOf(call, e) == [eng |-> e, result |-> AnalysisResult(call, e)]

\* a call of one of the entry points of the analysis layer
Analyse ==
    \E call \in AnalysisCalls :
        \E r \in {AnalysisOf(call, Cur)} :
            /\ Install(r.eng)
            /\ ret' = call
            /\ UNCHANGED resets

\* one engine, stepped or run, with analysis calls in between in any order
NextAnalysis == Step \/ Run \/ Analyse

SpecAnalysis == Init /\ [][NextAnalysis]_vars

\* the transition is a call of the analysis layer
AnalysisCalled == ret' \in AnalysisCalls

LoggedOkOn(actions, id) ==
    \E k \in 1..Len(NewEvents) :
        /\ NewEvents[k].action \in actions
        /\ NewEvents[k].result = "OK"
        /\ NewEvents[k].details.target = id

\* every Pipe and MessageQueue of the list holds at most capacity items
WithinCapacity(ipcList) ==
    \A j \in 1..Len(ipcList) :
        ~isSharedMemory(ipcList[j]) =>
            /\ Len(Fifo(ipcList[j])) >= 0
            /\ Len(Fifo(ipcList[j])) <= ipcList[j].capacity

\* C34: bounded buffers never overflow or underflow: every Pipe and
\* MessageQueue holds between 0 and capacity items in every state; a step
\* changes the number of items of a buffer by +1 exactly when it logs a
\* successful write or send on it, by -1 exactly when it logs a successful
\* read or recv on it, and not at all otherwise; and a buffer of capacity 0
\* is never written: it stays empty and a write attempted on it blocks.
C34_BuffersStayWithinCapacity ==
    [][/\ WithinCapacity(ipcs) /\ WithinCapacity(ipcs')
       /\ StepCalled =>
             \A j \in IpcIndices :
                 ~isSharedMemory(ipcs[j]) =>
                     Len(Fifo(ipcs'[j])) - Len(Fifo(ipcs[j])) =
                         (IF LoggedOkOn({"WRITE_PIPE", "SEND_MSG"}, ipcs[j].id)
                          THEN 1
                          ELSE IF LoggedOkOn({"READ_PIPE", "RECV_MSG"}, ipcs[j].id)
                          THEN 0 - 1
                          ELSE 0)
       /\ \A j \in IpcIndices :
             (~isSharedMemory(ipcs[j]) /\ ipcs[j].capacity = 0) =>
                 /\ Fifo(ipcs'[j]) = <<>>
                 /\ \A i \in ProcIndices :
                       (/\ StepCalled /\ Scheduled(Cur) = i
                        /\ AtFifoWrite(Cur, i)
                        /\ CurOp(Cur, i).target = ipcs[j].id) =>
                           /\ processes'[i].state = "BLOCKED"
                           /\ processes'[i].pc = processes[i].pc]_vars

\* C34 witness: a Pipe of capacity 2 is full again after two successful
\* writes, a successful read and a third successful write, and a write on it
\* has blocked.
C34_Witness ==
    \E j \in IpcIndices :
        /\ resets = 0
        /\ isPipe(ipcs[j]) /\ ipcs[j].capacity = 2
        /\ Len(ipcs[j].buffer) = 2
        /\ Cardinality({k \in 1..Len(events) :
                           /\ events[k].action = "WRITE_PIPE"
                           /\ events[k].result = "OK"}) >= 3
        /\ \E k \in 1..Len(events) :
              events[k].action = "READ_PIPE" /\ events[k].result = "OK"
        /\ \E k \in 1..Len(events) :
              events[k].action = "WRITE_PIPE" /\ events[k].result = "BLOCKED"

\* ------------------------------------------------------------ termination
\* one engine on which step() is called again and again: the caller keeps
\* calling while a call still changes something
NextStep == Step

\* a call of step() would change the state: ENABLED <<Step>>_vars, computed
\* from StepOf
StepChanges ==
    StepOf(Cur).eng # Cur \/ ret # PyBool(StepOf(Cur).progressed)

\* weak fairness of Step, WF_vars(Step), with ENABLED <<Step>>_vars written
\* as the state predicate StepChanges
StepIsCalledAgain == []<>(~StepChanges) \/ []<><<Step>>_vars

SpecStep == Init /\ [][NextStep]_vars /\ StepIsCalledAgain

\* the number of operations of all processes together
RECURSIVE OpsFrom(_, _)
OpsFrom(procs, i) ==
    IF i > Len(procs) THEN 0 ELSE Len(procs[i].operations) + OpsFrom(procs, i + 1)

TotalOps == OpsFrom(processes, 1)

\* every process has executed all of its operations
AllDone == \A i \in ProcIndices : processes[i].pc = Len(processes[i].operations)

\* C35: stepping always terminates: when step is called repeatedly, the
\* engine reaches, within 2 * TotalOps + 1 ticks (a tick executes an
\* operation, blocks a process at one, or is the last one that raises the
\* flag), a state in which every process has pc = len(operations) or
\* deadlocked is true, and it stays there; time never passes that bound.
C35_SteppingTerminates ==
    /\ [](time <= 2 * TotalOps + 1)
    /\ <>[](AllDone \/ deadlocked)

\* C35 witness: stepping has ended with the flag raised after at least five
\* ticks, one process having executed all its operations, one BLOCKED, and
\* the last call of step returned False.
C35_Witness ==
    /\ deadlocked /\ ~AllDone /\ time >= 5 /\ ret = "False"
    /\ \E i \in ProcIndices :
          /\ processes[i].pc = Len(processes[i].operations)
          /\ processes[i].pc > 0
    /\ \E i \in ProcIndices : processes[i].state = "BLOCKED"

\* ----------------------------------------------- meaning of the flag
\* C36: the deadlocked flag means that some process is stuck: whenever
\* deadlocked is true at least one process is in state BLOCKED, and the log
\* holds a DEADLOCK event only then; so a run in which a process was forced
\* FINISHED by ERROR_NO_SUCH_IPC before its last operation while all others
\* completed does not end with the flag or a DEADLOCK event.
C36_DeadlockedMeansSomeProcessBlocked ==
    (deadlocked \/ \E k \in 1..Len(events) : events[k].action = "DEADLOCK") =>
        \E i \in ProcIndices : processes[i].state = "BLOCKED"

\* --------------------------------------------------------- run's stall exit
\* the transition is a call of run()
RunCalled == ret' = None /\ ~ResetCalled

\* C37: run never abandons runnable work: whenever run(max_steps) returns
\* after fewer than max_steps ticks with deadlocked false and not all
\* processes finished, no process is READY with operations remaining; and
\* run with the default max_steps on the opposite-order locking scenario
\* ends in the deadlocked state that repeated calls of step reach.
C37_RunNeverAbandonsRunnableWork ==
    [][RunCalled =>
          /\ \A m \in MaxStepsArgs :
                (/\ Cur' = RunOf(Cur, m)
                 /\ time' - time < m
                 /\ ~deadlocked' /\ ~all_finished(Cur')) =>
                    \A i \in ProcIndices :
                        ~(/\ processes'[i].state = "READY"
                          /\ ~has_finished(processes'[i]))
          /\ (AtConstructionOfDemo /\ Cur' = RunOf(Cur, DefaultMaxSteps)) =>
                /\ deadlocked'
                /\ Cur' = StepTrace(Cur, 5)[6].eng]_vars

\* --------------------------------------------------- lock-queue consistency
\* the places <<j, k>> of the wait_queues of all SharedMemory objects that
\* hold pid
QueuePlaces(pid) ==
    {jk \in UNION {{<<j, k>> : k \in 1..Len(ipcs[j].wait_queue)} :
                      j \in {n \in IpcIndices : isSharedMemory(ipcs[n])}} :
        ipcs[jk[1]].wait_queue[jk[2]] = pid}

\* C38: within a run (no reset), for every SharedMemory: a non-empty
\* wait_queue implies a lock_holder; the lock_holder is not in its own
\* wait_queue; every pid in a wait_queue is a process in state BLOCKED whose
\* pc is at a LOCK on that object; and a pid is in at most one place of at
\* most one wait_queue.
C38_LockQueuesAreConsistent ==
    /\ \A j \in IpcIndices :
          isSharedMemory(ipcs[j]) =>
              /\ ipcs[j].wait_queue # <<>> => ipcs[j].lock_holder # None
              /\ ipcs[j].lock_holder \notin Range(ipcs[j].wait_queue)
              /\ \A k \in 1..Len(ipcs[j].wait_queue) :
                    \E i \in ProcIndices :
                        /\ processes[i].pid = ipcs[j].wait_queue[k]
                        /\ processes[i].state = "BLOCKED"
                        /\ ~has_finished(processes[i])
                        /\ CurOp(Cur, i).op_type = "LOCK"
                        /\ CurOp(Cur, i).target = ipcs[j].id
    /\ \A pid \in Pids(Cur) : Cardinality(QueuePlaces(pid)) <= 1

\* C38 witness: a lock has been handed over by an UNLOCK to a process that
\* had blocked on it, and a process waits in the queue of a SharedMemory held
\* by another.
C38_Witness ==
    /\ \E k \in 1..Len(events) :
          events[k].action = "UNLOCK" /\ events[k].result = "OK"
    /\ \E j \in IpcIndices :
          /\ isSharedMemory(ipcs[j])
          /\ ipcs[j].lock_holder # None
          /\ BlockedOnLockAt(ipcs[j].lock_holder, ipcs[j].id) > 0
    /\ \E j \in IpcIndices :
          /\ isSharedMemory(ipcs[j])
          /\ Len(ipcs[j].wait_queue) >= 1

\* ------------------------------------------------------ blocking bookkeeping
\* the positions of a log, up to position k, that hold an event with result
\* BLOCKED
BlockedPositions(evs, k) == {n \in 1..k : evs[n].result = "BLOCKED"}

\* C39: blocking bookkeeping is consistent with the event log: after every
\* transition the sum of block_counts_by_ipc equals len(block_events) and
\* the number of events with result BLOCKED; the counter of each IPC id
\* equals the number of BLOCKED events whose target is that id; the n-th
\* entry of block_events is the (time, pid, ipc id) of the n-th BLOCKED
\* event; and no counter decreases in a step or a run.
C39_BlockBookkeepingMatchesLog ==
    [][LET blocked == BlockedPositions(events', Len(events'))
       IN /\ SumCounts(block_counts_by_ipc', DOMAIN block_counts_by_ipc')
                = Len(block_events')
          /\ Len(block_events') = Cardinality(blocked)
          /\ DOMAIN block_counts_by_ipc' \subseteq IpcIds(Cur)
          /\ \A id \in IpcIds(Cur) :
                BlockCount(Cur', id)
                   = Cardinality({n \in blocked : events'[n].details.target = id})
          /\ \A n \in blocked :
                block_events'[Cardinality(BlockedPositions(events', n))]
                   = <<events'[n].time, events'[n].pid, events'[n].details.target>>
          /\ ~ResetCalled =>
                \A id \in IpcIds(Cur) : BlockCount(Cur', id) >= BlockCount(Cur, id)]_vars

\* C39 witness: three blocks are recorded, two of them on one IPC object and
\* one on another, at three different ticks.
C39_Witness ==
    /\ Len(block_events) = 3
    /\ \E id \in IpcIds(Cur) : BlockCount(Cur, id) = 2
    /\ \E id \in IpcIds(Cur) : BlockCount(Cur, id) = 1
    /\ block_events[1][1] < block_events[2][1]
    /\ block_events[2][1] < block_events[3][1]
    /\ Cardinality(BlockedPositions(events, Len(events))) = 3
====
